---- MODULE Spec2Model ----
(***************************************************************************)
(* Superchess: the chess rule engine (chess.py, class Chess) and its       *)
(* superpower variant (superchess.py, class SuperChess), driven the way    *)
(* game.py drives them: clicks handed to move_piece, the S key, clicks on  *)
(* a preview square, the AI for black, the clock, a restart.               *)
(*                                                                         *)
(* Every method is an operator from the object's state (a record with one  *)
(* field per attribute) and the call's arguments to the state after the    *)
(* call and the returned value; an action applies one method to the        *)
(* variables.  Lists are sequences in the order the code builds them.      *)
(***************************************************************************)
EXTENDS Integers, Sequences, FiniteSets, TLC

VARIABLES
    variant,               \* which class game.py constructed: "Chess" or "SuperChess"
    piece_location,        \* [file][row] -> [name, selected, coord]
    moves,                 \* highlighted destinations of the selected piece
    turn,                  \* [white |-> 0/1, black |-> 0/1], 1 = side to move
    captured,              \* piece names, in capture order
    winner,                \* "" while the game runs
    has_moved,             \* dict keyed by square; only the keys ever written are present
    last_move,             \* None or <<src xy, dst xy, piece name>>
    position_counts,       \* dict: position key -> occurrences
    ai_auto_promote,
    charges,               \* SuperChess: [white |-> n, black |-> n]
    previewing,
    power_preview_active,
    preview_moves,
    preview_source,
    preview_selected,
    power_preview_name,
    fortress_zones,        \* sequence of [owner, squares, ttl]
    power_was_used_this_turn,
    king_recently_checked,
    session,               \* which bounded set of squares the players click in this game
    nmoves,                \* real half-moves since the last reset (bounds the exploration)
    nresets                \* restarts so far (bounds the exploration)

engine == <<variant, piece_location, moves, turn, captured, winner, has_moved,
            last_move, position_counts, ai_auto_promote, charges, previewing,
            power_preview_active, preview_moves, preview_source, preview_selected,
            power_preview_name, fortress_zones, power_was_used_this_turn,
            king_recently_checked>>

vars == <<variant, piece_location, moves, turn, captured, winner, has_moved,
          last_move, position_counts, ai_auto_promote, charges, previewing,
          power_preview_active, preview_moves, preview_source, preview_selected,
          power_preview_name, fortress_zones, power_was_used_this_turn,
          king_recently_checked, session, nmoves, nresets>>

(* The object `self` as one value. *)
St ==
    [variant |-> variant, piece_location |-> piece_location, moves |-> moves,
     turn |-> turn, captured |-> captured, winner |-> winner,
     has_moved |-> has_moved, last_move |-> last_move,
     position_counts |-> position_counts, ai_auto_promote |-> ai_auto_promote,
     charges |-> charges, previewing |-> previewing,
     power_preview_active |-> power_preview_active,
     preview_moves |-> preview_moves, preview_source |-> preview_source,
     preview_selected |-> preview_selected,
     power_preview_name |-> power_preview_name,
     fortress_zones |-> fortress_zones,
     power_was_used_this_turn |-> power_was_used_this_turn,
     king_recently_checked |-> king_recently_checked]

(* Python's None, for the attributes that hold None or a tuple. *)
None == <<>>

(* Python's None where the attribute otherwise holds a string. *)
NoName == "None"

----------------------------------------------------------------------------
(* Squares, pieces *)

Files == <<"a", "b", "c", "d", "e", "f", "g", "h">>

Rows == 1..8

Coords == 0..7

Kinds == {"pawn", "knight", "bishop", "rook", "queen", "king"}

Name(color, kind) == color \o "_" \o kind

WhiteNames == {Name("white", k) : k \in Kinds}

BlackNames == {Name("black", k) : k \in Kinds}

KindTable == [p \in WhiteNames \cup BlackNames |->
                 CHOOSE k \in Kinds : p \in {Name("white", k), Name("black", k)}]

(* piece_name.split("_", 1)[0] *)
ColorOf(p) == IF p \in WhiteNames THEN "white" ELSE "black"

(* piece_name.split("_", 1)[1] *)
KindOf(p) == KindTable[p]

Other(color) == IF color = "black" THEN "white" ELSE "black"

Abs(n) == IF n < 0 THEN -n ELSE n

OnBoard(x, y) == 0 <= x /\ x < 8 /\ 0 <= y /\ y < 8

Ord(f) == 96 + (CHOOSE i \in 1..8 : Files[i] = f)

Chr(n) == Files[n - 96]

(* A conversion that counts the rows from the top as the y coordinates are. *)
xy_to_square_rows_from_top(x, y) == <<Chr(97 + x), y + 1>>

xy_to_square(x, y) == <<Chr(97 + x), 8 - y>>

square_to_xy(file_char, row_no) == <<Ord(file_char) - 97, 8 - row_no>>

(* piece_location[f][r][0] for the square of board coordinates x, y *)
At(pl, x, y) == pl[Chr(97 + x)][8 - y].name

(* piece_location[f][r][0] = name for the square of board coordinates x, y *)
Put(pl, x, y, name) == [pl EXCEPT ![Chr(97 + x)][8 - y].name = name]

(* The scan "for f in piece_location: for r in piece_location[f]: if [1]": the
   dictionaries keep insertion order, files a..h and rows 8 down to 1. *)
ScanOrder == [i \in 1..64 |-> <<Files[((i - 1) \div 8) + 1], 8 - ((i - 1) % 8)>>]

FindSelected(pl) ==
    LET hits == {i \in 1..64 : pl[ScanOrder[i][1]][ScanOrder[i][2]].selected}
    IN  IF hits = {} THEN None
        ELSE ScanOrder[CHOOSE i \in hits : \A j \in hits : i <= j]

(* The scan "for f in 'abcdefgh': for r in range(1, 9)". *)
FileMajor == [i \in 1..64 |-> <<Files[((i - 1) \div 8) + 1], ((i - 1) % 8) + 1>>]

ClearSelection(pl) ==
    [f \in DOMAIN pl |-> [r \in DOMAIN pl[f] |-> [pl[f][r] EXCEPT !.selected = FALSE]]]

(* dict.get(key, default) and dict[key] = value *)
Get(d, k, default) == IF k \in DOMAIN d THEN d[k] ELSE default

Set(d, k, v) == [x \in DOMAIN d \cup {k} |-> IF x = k THEN v ELSE d[x]]

(* Concatenation of a sequence of sequences, in order. *)
RECURSIVE Flatten(_)
Flatten(ss) == IF ss = <<>> THEN <<>> ELSE Head(ss) \o Flatten(Tail(ss))

InSeq(e, seq) == \E i \in 1..Len(seq) : seq[i] = e

----------------------------------------------------------------------------
(* Method calls.  A call self.m(...) or super().m(...) is written m(...) below and
   resolved by Call to def_m, the translation of the method's `def`. *)

RECURSIVE Call(_, _)

is_square_attacked(pl, color, square_xy) == Call("is_square_attacked", <<pl, color, square_xy>>)

is_in_check(pl, color) == Call("is_in_check", <<pl, color>>)

possible_moves(s, piece_name, piece_coord) ==
    Call("possible_moves", <<s, piece_name, piece_coord>>)

get_position_key(s) == Call("get_position_key", <<s>>)

Chess_validate_move(s, destination, simulate, source, choice) ==
    Call("Chess_validate_move", <<s, destination, simulate, source, choice>>)

super_moves_for(s, piece_name, piece_coord) ==
    Call("super_moves_for", <<s, piece_name, piece_coord>>)

apply_super_move_simulate(s, src_file, src_row, dest) ==
    Call("apply_super_move_simulate", <<s, src_file, src_row, dest>>)

_update_king_recently_checked(s) == Call("_update_king_recently_checked", <<s>>)

SuperChess_validate_move(s, destination, simulate, source, choice) ==
    Call("SuperChess_validate_move", <<s, destination, simulate, source, choice>>)

validate_move(s, destination, simulate, source, choice) ==
    Call("validate_move", <<s, destination, simulate, source, choice>>)

Chess_legal_moves_for(s, piece_name, piece_coord) ==
    Call("Chess_legal_moves_for", <<s, piece_name, piece_coord>>)

SuperChess_legal_moves_for(s, piece_name, piece_coord) ==
    Call("SuperChess_legal_moves_for", <<s, piece_name, piece_coord>>)

legal_moves_for(s, piece_name, piece_coord) ==
    Call("legal_moves_for", <<s, piece_name, piece_coord>>)

has_legal_moves(s, color) == Call("has_legal_moves", <<s, color>>)

get_all_legal_moves(s, color) == Call("get_all_legal_moves", <<s, color>>)

_after_move_checks(s, turn_) == Call("_after_move_checks", <<s, turn_>>)

move_piece(s, turn_, square, choice) == Call("move_piece", <<s, turn_, square, choice>>)

Chess_ai_move(s, pick) == Call("Chess_ai_move", <<s, pick>>)

SuperChess_ai_move(s, use_power, pick) == Call("SuperChess_ai_move", <<s, use_power, pick>>)

ai_move(s, use_power, pick) == Call("ai_move", <<s, use_power, pick>>)

toggle_preview(s, color) == Call("toggle_preview", <<s, color>>)

start_power_preview_for_selected(s) == Call("start_power_preview_for_selected", <<s>>)

commit_power_preview(s, board_xy) == Call("commit_power_preview", <<s, board_xy>>)

----------------------------------------------------------------------------
(* Move generation: chess.py *)

(* A ray that runs on to the edge of the board whatever stands on it. *)
RECURSIVE Ray_through(_, _, _, _, _)
Ray_through(pl, cx, cy, dx, dy) ==
    LET nx == cx + dx
        ny == cy + dy
    IN  IF nx < 0 \/ ny < 0 \/ nx > 7 \/ ny > 7 THEN <<>>
        ELSE << <<nx, ny>> >> \o Ray_through(pl, nx, ny, dx, dy)

(* One ray of diagonal_moves / linear_moves: every square up to the edge or up to and
   including the first occupied one. *)
RECURSIVE Ray(_, _, _, _, _)
Ray(pl, cx, cy, dx, dy) ==
    LET nx == cx + dx
        ny == cy + dy
    IN  IF nx < 0 \/ ny < 0 \/ nx > 7 \/ ny > 7 THEN <<>>
        ELSE IF At(pl, nx, ny) # "" THEN << <<nx, ny>> >>
        ELSE << <<nx, ny>> >> \o Ray(pl, nx, ny, dx, dy)

diagonal_moves(pl, positions, piece_coord) ==
    positions
        \o Ray(pl, piece_coord[1], piece_coord[2], -1, -1)
        \o Ray(pl, piece_coord[1], piece_coord[2], 1, 1)
        \o Ray(pl, piece_coord[1], piece_coord[2], -1, 1)
        \o Ray(pl, piece_coord[1], piece_coord[2], 1, -1)

linear_moves(pl, positions, piece_coord) ==
    positions
        \o Ray(pl, piece_coord[1], piece_coord[2], -1, 0)
        \o Ray(pl, piece_coord[1], piece_coord[2], 1, 0)
        \o Ray(pl, piece_coord[1], piece_coord[2], 0, -1)
        \o Ray(pl, piece_coord[1], piece_coord[2], 0, 1)

KnightOffsets == << <<2, 1>>, <<2, -1>>, <<-2, 1>>, <<-2, -1>>,
                    <<1, 2>>, <<1, -2>>, <<-1, 2>>, <<-1, -2>> >>

(* for dx in (-1,0,1): for dy in (-1,0,1): skip (0,0) *)
KingOffsets == << <<-1, -1>>, <<-1, 0>>, <<-1, 1>>, <<0, -1>>,
                  <<0, 1>>, <<1, -1>>, <<1, 0>>, <<1, 1>> >>

(* The offsets that stay on the board, applied to x, y, in the order given. *)
Steps(offsets, x, y) ==
    LET all == [i \in 1..Len(offsets) |-> <<x + offsets[i][1], y + offsets[i][2]>>]
        Inside(c) == OnBoard(c[1], c[2])
    IN  SelectSeq(all, Inside)

attack_squares_for(pl, piece_name, piece_coord) ==
    LET x == piece_coord[1]
        y == piece_coord[2]
        color == ColorOf(piece_name)
        kind == KindOf(piece_name)
        dir_ == IF color = "black" THEN 1 ELSE -1
    IN  CASE kind = "pawn" -> Steps(<< <<-1, dir_>>, <<1, dir_>> >>, x, y)
          [] kind = "knight" -> Steps(KnightOffsets, x, y)
          [] kind = "king" -> Steps(KingOffsets, x, y)
          [] kind = "rook" -> linear_moves(pl, <<>>, piece_coord)
          [] kind = "bishop" -> diagonal_moves(pl, <<>>, piece_coord)
          [] kind = "queen" ->
                diagonal_moves(pl, linear_moves(pl, <<>>, piece_coord), piece_coord)

def_is_square_attacked(pl, color, square_xy) ==
    IF square_xy = None THEN FALSE
    ELSE LET opponent == IF color = "black" THEN "white" ELSE "black"
         IN  \E f \in DOMAIN pl : \E r \in Rows :
                LET p == pl[f][r].name
                IN  /\ p # ""
                    /\ ColorOf(p) = opponent
                    /\ InSeq(square_xy, attack_squares_for(pl, p, pl[f][r].coord))

find_king(pl, color) ==
    LET hits == {i \in 1..64 :
                    pl[FileMajor[i][1]][FileMajor[i][2]].name = Name(color, "king")}
    IN  IF hits = {} THEN None
        ELSE LET sq == FileMajor[CHOOSE i \in hits : \A j \in hits : i <= j]
             IN  pl[sq[1]][sq[2]].coord

def_is_in_check(pl, color) ==
    LET king == find_king(pl, color)
    IN  IF king # None THEN is_square_attacked(pl, color, king) ELSE FALSE

pawn_moves(s, color, pos) ==
    LET pl == s.piece_location
        x == pos[1]
        y == pos[2]
        dir_ == IF color = "black" THEN 1 ELSE -1
        start_y == IF color = "black" THEN 1 ELSE 6
        ny == y + dir_
        forward ==
            IF 0 <= ny /\ ny < 8 /\ At(pl, x, ny) = ""
            THEN << <<x, ny>> >> \o
                 (IF y = start_y /\ At(pl, x, y + 2 * dir_) = ""
                  THEN << <<x, y + 2 * dir_>> >> ELSE <<>>)
            ELSE <<>>
        Diag(dx) ==
            IF OnBoard(x + dx, ny) /\ At(pl, x + dx, ny) # ""
               /\ ColorOf(At(pl, x + dx, ny)) # color
            THEN << <<x + dx, ny>> >> ELSE <<>>
        en_passant ==
            IF s.last_move # None
               /\ KindOf(s.last_move[3]) = "pawn"
               /\ Abs(s.last_move[1][2] - s.last_move[2][2]) = 2
               /\ s.last_move[2][2] = y
               /\ Abs(s.last_move[2][1] - x) = 1
            THEN << <<s.last_move[2][1], y + dir_>> >> ELSE <<>>
    IN  forward \o Diag(-1) \o Diag(1) \o en_passant

castling_moves(s, color, pos) ==
    LET pl == s.piece_location
        x == pos[1]
        back_y == IF color = "black" THEN 0 ELSE 7
        row_no == IF color = "black" THEN 8 ELSE 1
        king_sq == <<Chr(97 + x), row_no>>
        king_side ==
            IF /\ ~Get(s.has_moved, <<"h", row_no>>, TRUE)
               /\ pl["h"][row_no].name = Name(color, "rook")
               /\ pl["f"][row_no].name = ""
               /\ pl["g"][row_no].name = ""
               /\ ~is_square_attacked(pl, color, <<5, back_y>>)
               /\ ~is_square_attacked(pl, color, <<6, back_y>>)
            THEN << <<6, back_y>> >> ELSE <<>>
        queen_side ==
            IF /\ ~Get(s.has_moved, <<"a", row_no>>, TRUE)
               /\ pl["a"][row_no].name = Name(color, "rook")
               /\ pl["b"][row_no].name = ""
               /\ pl["c"][row_no].name = ""
               /\ pl["d"][row_no].name = ""
               /\ ~is_square_attacked(pl, color, <<3, back_y>>)
               /\ ~is_square_attacked(pl, color, <<2, back_y>>)
            THEN << <<2, back_y>> >> ELSE <<>>
    IN  IF Get(s.has_moved, king_sq, TRUE) THEN <<>> ELSE king_side \o queen_side

def_possible_moves(s, piece_name, piece_coord) ==
    IF piece_name = "" THEN <<>>
    ELSE
    LET pl == s.piece_location
        x == piece_coord[1]
        y == piece_coord[2]
        color == ColorOf(piece_name)
        kind == KindOf(piece_name)
        positions ==
            CASE kind = "pawn" -> pawn_moves(s, color, piece_coord)
              [] kind = "rook" -> linear_moves(pl, <<>>, piece_coord)
              [] kind = "bishop" -> diagonal_moves(pl, <<>>, piece_coord)
              [] kind = "queen" ->
                    diagonal_moves(pl, linear_moves(pl, <<>>, piece_coord), piece_coord)
              [] kind = "knight" -> Steps(KnightOffsets, x, y)
              [] kind = "king" ->
                    Steps(KingOffsets, x, y) \o castling_moves(s, color, piece_coord)
        NotFriendly(c) == At(pl, c[1], c[2]) = "" \/ ColorOf(At(pl, c[1], c[2])) # color
    IN  SelectSeq(positions, NotFriendly)

----------------------------------------------------------------------------
(* Repetition key: chess.py *)

def_get_position_key(s) ==
    LET pl == s.piece_location
        board_parts ==
            [i \in 1..64 |->
                LET p == pl[FileMajor[i][1]][FileMajor[i][2]].name
                IN  IF p = "" THEN "." ELSE p]
        turn_ == IF s.turn.white = 1 THEN "w" ELSE "b"
        Right(f, r, rook, ch) ==
            IF pl[f][r].name = rook /\ ~Get(s.has_moved, <<f, r>>, TRUE)
            THEN <<ch>> ELSE <<>>
        rights == Right("h", 1, "white_rook", "K") \o Right("a", 1, "white_rook", "Q")
                  \o Right("h", 8, "black_rook", "k") \o Right("a", 8, "black_rook", "q")
        rights_str == IF rights = <<>> THEN <<"-">> ELSE rights
        ep == IF s.last_move # None
                 /\ KindOf(s.last_move[3]) = "pawn"
                 /\ Abs(s.last_move[1][2] - s.last_move[2][2]) = 2
              THEN xy_to_square(s.last_move[2][1],
                                (s.last_move[1][2] + s.last_move[2][2]) \div 2)
              ELSE <<"-">>
    IN  <<board_parts, turn_, rights_str, ep>>

----------------------------------------------------------------------------
(* Move execution: chess.py *)

(* What a method hands back: the object after the call and the returned value. *)
Result(s, ret) == [s |-> s, ret |-> ret]

SwapTurn(t) == [white |-> t.black, black |-> t.white]

(* chess.py 570-581: the piece a pawn arriving on dy is replaced by; `choice` is what
   ask_promotion returned. *)
Promoted(s, color, kind, dy, simulate, choice, name) ==
    IF kind = "pawn" /\ ((color = "white" /\ dy = 0) \/ (color = "black" /\ dy = 7))
    THEN IF ~simulate /\ ~s.ai_auto_promote THEN Name(color, choice)
         ELSE Name(color, "queen")
    ELSE name

(* chess.py 525-539: a pawn moves diagonally onto an empty square beside which the
   last move left an enemy pawn that had just advanced two rows. *)
IsEnPassant(s, destination, src) ==
    LET pl0 == s.piece_location
        dx == destination[1]
        piece_name == pl0[src[1]][src[2]].name
        sx == pl0[src[1]][src[2]].coord[1]
        sy == pl0[src[1]][src[2]].coord[2]
    IN  /\ KindOf(piece_name) = "pawn"
        /\ At(pl0, dx, destination[2]) = ""
        /\ dx # sx
        /\ s.last_move # None
        /\ KindOf(s.last_move[3]) = "pawn"
        /\ Abs(s.last_move[1][2] - s.last_move[2][2]) = 2
        /\ s.last_move[2][1] = dx
        /\ s.last_move[2][2] = sy
        /\ OnBoard(dx, sy)
        /\ At(pl0, dx, sy) # ""
        /\ ColorOf(At(pl0, dx, sy)) # ColorOf(piece_name)

(* A castling test that never finds the rook. *)
IsCastle_rook_stays(pl, destination, src) == FALSE

(* chess.py 541-556: the king moves two files on its row and the rook of its colour
   stands on the corner of that side. *)
IsCastle(pl, destination, src) ==
    LET piece_name == pl[src[1]][src[2]].name
        sx == pl[src[1]][src[2]].coord[1]
        sy == pl[src[1]][src[2]].coord[2]
        dx == destination[1]
    IN  /\ KindOf(piece_name) = "king" /\ sy = destination[2] /\ Abs(dx - sx) = 2
        /\ pl[IF dx > sx THEN "h" ELSE "a"][src[2]].name = Name(ColorOf(piece_name), "rook")

(* A relocation that leaves the flag of the source square as it was. *)
Relocated_source_unmarked(s, destination, simulate, src, choice, did_en_passant, rook_moves) ==
    LET pl0 == s.piece_location
        dx == destination[1]
        dy == destination[2]
        des == xy_to_square(dx, dy)
        src_file == src[1]
        src_row == src[2]
        piece_name == pl0[src_file][src_row].name
        color == ColorOf(piece_name)
        sx == pl0[src_file][src_row].coord[1]
        sy == pl0[src_file][src_row].coord[2]
        target_piece == pl0[des[1]][des[2]].name
        (* en passant *)
        cap1 == IF did_en_passant /\ ~simulate
                THEN Append(s.captured, At(pl0, dx, sy)) ELSE s.captured
        pl1 == IF did_en_passant THEN Put(pl0, dx, sy, "") ELSE pl0
        (* castling: the rook goes too *)
        rook_src_file == IF dx > sx THEN "h" ELSE "a"
        rook_dst_file == IF dx > sx THEN "f" ELSE "d"
        pl2 == IF rook_moves
               THEN [pl1 EXCEPT ![rook_dst_file][src_row].name = Name(color, "rook"),
                                ![rook_src_file][src_row].name = ""]
               ELSE pl1
        hm1 == IF rook_moves THEN Set(s.has_moved, <<rook_src_file, src_row>>, TRUE)
               ELSE s.has_moved
        (* capture bookkeeping *)
        cap2 == IF target_piece # "" /\ ~did_en_passant /\ ~simulate
                THEN Append(cap1, target_piece) ELSE cap1
        (* the piece moves *)
        pl3 == [pl2 EXCEPT ![des[1]][des[2]].name = piece_name,
                           ![src_file][src_row].name = "",
                           ![src_file][src_row].selected = FALSE]
        (* promotion *)
        pl4 == [pl3 EXCEPT ![des[1]][des[2]].name =
                   Promoted(s, color, KindOf(piece_name), dy, simulate, choice, @)]
    IN  [s EXCEPT !.piece_location = pl4,
                  !.has_moved = hm1,
                  !.captured = cap2]

(* chess.py 525-581: the board, has_moved and the captured list after the piece on src
   went to destination. *)
Relocated(s, destination, simulate, src, choice, did_en_passant, rook_moves) ==
    LET pl0 == s.piece_location
        dx == destination[1]
        dy == destination[2]
        des == xy_to_square(dx, dy)
        src_file == src[1]
        src_row == src[2]
        piece_name == pl0[src_file][src_row].name
        color == ColorOf(piece_name)
        sx == pl0[src_file][src_row].coord[1]
        sy == pl0[src_file][src_row].coord[2]
        target_piece == pl0[des[1]][des[2]].name
        (* en passant *)
        cap1 == IF did_en_passant /\ ~simulate
                THEN Append(s.captured, At(pl0, dx, sy)) ELSE s.captured
        pl1 == IF did_en_passant THEN Put(pl0, dx, sy, "") ELSE pl0
        (* castling: the rook goes too *)
        rook_src_file == IF dx > sx THEN "h" ELSE "a"
        rook_dst_file == IF dx > sx THEN "f" ELSE "d"
        pl2 == IF rook_moves
               THEN [pl1 EXCEPT ![rook_dst_file][src_row].name = Name(color, "rook"),
                                ![rook_src_file][src_row].name = ""]
               ELSE pl1
        hm1 == IF rook_moves THEN Set(s.has_moved, <<rook_src_file, src_row>>, TRUE)
               ELSE s.has_moved
        (* capture bookkeeping *)
        cap2 == IF target_piece # "" /\ ~did_en_passant /\ ~simulate
                THEN Append(cap1, target_piece) ELSE cap1
        (* the piece moves *)
        pl3 == [pl2 EXCEPT ![des[1]][des[2]].name = piece_name,
                           ![src_file][src_row].name = "",
                           ![src_file][src_row].selected = FALSE]
        (* promotion *)
        pl4 == [pl3 EXCEPT ![des[1]][des[2]].name =
                   Promoted(s, color, KindOf(piece_name), dy, simulate, choice, @)]
    IN  [s EXCEPT !.piece_location = pl4,
                  !.has_moved = Set(hm1, <<src_file, src_row>>, TRUE),
                  !.captured = cap2]

(* chess.py 589-591: position_counts[key] = position_counts.get(key, 0) + 1 *)
Counted(s, key) == [s EXCEPT !.position_counts = Set(@, key, Get(@, key, 0) + 1)]

(* A record of the move that also puts the newest capture first in the list. *)
RecordedNewestFirst(moved, turn_, last_move_) ==
    LET n == Len(moved.captured)
        turned == [moved EXCEPT !.last_move = last_move_, !.turn = SwapTurn(turn_),
                                !.captured = [k \in 1..n |-> moved.captured[n + 1 - k]]]
    IN  Counted(turned, get_position_key(turned))

(* chess.py 583-593: a real move is recorded as the last move, passes the turn and is
   counted in the repetition table. *)
Recorded(moved, turn_, last_move_) ==
    Counted([moved EXCEPT !.last_move = last_move_, !.turn = SwapTurn(turn_)],
            get_position_key([moved EXCEPT !.last_move = last_move_,
                                           !.turn = SwapTurn(turn_)]))

(* A validate_move that also turns down a move onto a piece of the mover's colour. *)
Chess_validate_move_sparing_own(s, destination, simulate, source, choice) ==
    LET src == IF source = None THEN FindSelected(s.piece_location) ELSE source
        name == s.piece_location[src[1]][src[2]].name
        target == At(s.piece_location, destination[1], destination[2])
    IN
    IF src = None THEN Result(s, FALSE)
    ELSE IF name = "" THEN Result(s, FALSE)
    ELSE IF target # "" /\ ColorOf(target) = ColorOf(name) THEN Result(s, FALSE)
    ELSE
    LET moved == Relocated(s, destination, simulate, src, choice,
                           IsEnPassant(s, destination, src),
                           IsCastle(IF IsEnPassant(s, destination, src)
                                    THEN Put(s.piece_location, destination[1],
                                             s.piece_location[src[1]][src[2]].coord[2], "")
                                    ELSE s.piece_location,
                                    destination, src))
    IN  IF simulate THEN Result(moved, TRUE)
        ELSE Result(Recorded(moved, s.turn,
                             <<s.piece_location[src[1]][src[2]].coord, destination, name>>),
                    TRUE)

def_Chess_validate_move(s, destination, simulate, source, choice) ==
    LET src == IF source = None THEN FindSelected(s.piece_location) ELSE source
    IN
    IF src = None THEN Result(s, FALSE)
    ELSE IF s.piece_location[src[1]][src[2]].name = "" THEN Result(s, FALSE)
    ELSE
    LET moved == Relocated(s, destination, simulate, src, choice,
                           IsEnPassant(s, destination, src),
                           IsCastle(IF IsEnPassant(s, destination, src)
                                    THEN Put(s.piece_location, destination[1],
                                             s.piece_location[src[1]][src[2]].coord[2], "")
                                    ELSE s.piece_location,
                                    destination, src))
    IN  IF simulate THEN Result(moved, TRUE)
        ELSE Result(Recorded(moved, s.turn,
                             <<s.piece_location[src[1]][src[2]].coord, destination,
                               s.piece_location[src[1]][src[2]].name>>), TRUE)

----------------------------------------------------------------------------
(* Superpowers: superchess.py *)

PowerOf(kind) ==
    CASE kind = "king" -> "royal_teleport"
      [] kind = "queen" -> "dark_empress"
      [] kind = "rook" -> "fortress_field"
      [] kind = "bishop" -> "phase_shift"
      [] kind = "knight" -> "shadow_jump"
      [] kind = "pawn" -> "sacrifice"

Friendly(pl, x, y, color) == At(pl, x, y) # "" /\ ColorOf(At(pl, x, y)) = color

Enemy(pl, x, y, color) == At(pl, x, y) # "" /\ ColorOf(At(pl, x, y)) # color

(* One diagonal of the bishop's phase shift: every square to the edge, blockers
   ignored; an enemy king's square is replaced by the square before it when that
   square holds a piece of the king's colour. *)
RECURSIVE PhaseRay(_, _, _, _, _, _)
PhaseRay(pl, color, cx, cy, dx, dy) ==
    LET nx == cx + dx
        ny == cy + dy
    IN  IF nx < 0 \/ ny < 0 \/ nx > 7 \/ ny > 7 THEN <<>>
        ELSE LET occupant == At(pl, nx, ny)
                 shielded ==
                     /\ occupant # "" /\ KindOf(occupant) = "king"
                     /\ ColorOf(occupant) # color
                     /\ OnBoard(nx - dx, ny - dy)
                     /\ Friendly(pl, nx - dx, ny - dy, ColorOf(occupant))
                 here == IF shielded THEN <<nx - dx, ny - dy>> ELSE <<nx, ny>>
             IN  <<here>> \o PhaseRay(pl, color, nx, ny, dx, dy)

def_super_moves_for(s, piece_name, piece_coord) ==
    LET pl == s.piece_location
        color == ColorOf(piece_name)
        kind == KindOf(piece_name)
        x == piece_coord[1]
        y == piece_coord[2]
        Ally(sq) == pl[sq[1]][sq[2]].name # ""
                    /\ ColorOf(pl[sq[1]][sq[2]].name) = color
                    /\ pl[sq[1]][sq[2]].name # piece_name
        allies == SelectSeq(FileMajor, Ally)
        NotFriendly(c) == ~Friendly(pl, c[1], c[2], color)
    IN  CASE kind = "king" -> [i \in 1..Len(allies) |-> pl[allies[i][1]][allies[i][2]].coord]
          [] kind = "queen" -> SelectSeq(Steps(KnightOffsets, x, y), NotFriendly)
          [] kind = "rook" -> << <<x, y>> >>
          [] kind = "bishop" ->
                PhaseRay(pl, color, x, y, -1, -1) \o PhaseRay(pl, color, x, y, 1, 1)
                \o PhaseRay(pl, color, x, y, -1, 1) \o PhaseRay(pl, color, x, y, 1, -1)
          [] kind = "knight" -> SelectSeq(Steps(KingOffsets, x, y), NotFriendly)
          [] kind = "pawn" -> << <<x, y>> >>

(* The 3x3 block around cx, cy: for ox in (-1,0,1): for oy in (-1,0,1), the centre
   included. *)
ZoneSquares(cx, cy) ==
    Steps(<< <<-1, -1>>, <<-1, 0>>, <<-1, 1>>, <<0, -1>>, <<0, 0>>,
             <<0, 1>>, <<1, -1>>, <<1, 0>>, <<1, 1>> >>, cx, cy)

FortressTTL == 2

(* Victims of either colour: the occupied squares left and right of the pawn. *)
SacrificeVictims_either_colour(pl, color, sx, sy) ==
    LET IsPiece(c) == At(pl, c[1], c[2]) # ""
    IN  SelectSeq(Steps(<< <<-1, 0>>, <<1, 0>> >>, sx, sy), IsPiece)

(* The pawn's neighbours taken by a sacrifice: for ox in (-1, 1), the enemy pieces on
   the pawn's rank. *)
SacrificeVictims(pl, color, sx, sy) ==
    LET IsEnemy(c) == Enemy(pl, c[1], c[2], color)
    IN  SelectSeq(Steps(<< <<-1, 0>>, <<1, 0>> >>, sx, sy), IsEnemy)

RECURSIVE ClearSquares(_, _)
ClearSquares(pl, sqs) ==
    IF sqs = <<>> THEN pl
    ELSE ClearSquares(Put(pl, Head(sqs)[1], Head(sqs)[2], ""), Tail(sqs))

NamesAt(pl, sqs) == [i \in 1..Len(sqs) |-> At(pl, sqs[i][1], sqs[i][2])]

def_apply_super_move_simulate(s, src_file, src_row, dest) ==
    LET pl == s.piece_location
        piece_name == pl[src_file][src_row].name
    IN
    IF piece_name = "" THEN Result(s, FALSE)
    ELSE
    LET color == ColorOf(piece_name)
        kind == KindOf(piece_name)
        sx == pl[src_file][src_row].coord[1]
        sy == pl[src_file][src_row].coord[2]
        dx == dest[1]
        dy == dest[2]
        tgt == At(pl, dx, dy)
        victims == SacrificeVictims(pl, color, sx, sy)
    IN  CASE kind = "king" ->
                IF tgt # "" /\ ColorOf(tgt) = color /\ tgt # piece_name
                THEN Result([s EXCEPT !.piece_location =
                                [Put(pl, dx, dy, piece_name)
                                    EXCEPT ![src_file][src_row].name = tgt]], TRUE)
                ELSE Result(s, FALSE)
          [] kind = "rook" ->
                Result([s EXCEPT !.fortress_zones =
                           Append(@, [owner |-> color, squares |-> ZoneSquares(sx, sy),
                                      ttl |-> FortressTTL])], TRUE)
          [] kind \in {"bishop", "queen", "knight"} ->
                IF tgt # "" /\ ColorOf(tgt) = color THEN Result(s, FALSE)
                ELSE Result([s EXCEPT !.piece_location =
                                [Put(pl, dx, dy, piece_name)
                                    EXCEPT ![src_file][src_row].name = ""]], TRUE)
          [] kind = "pawn" ->
                Result([s EXCEPT
                           !.piece_location =
                               ClearSquares([pl EXCEPT ![src_file][src_row].name = ""],
                                            victims),
                           !.captured = @ \o NamesAt(pl, victims)], TRUE)

(* A _can_activate_power that checks nothing. *)
_can_activate_power_unchecked(s, src_file, src_row, pname, dx, dy) == TRUE

_can_activate_power(s, src_file, src_row, pname, dx, dy) ==
    LET pl == s.piece_location
        piece_name == pl[src_file][src_row].name
    IN
    IF piece_name = "" THEN FALSE
    ELSE
    LET color == ColorOf(piece_name)
        tgt == At(pl, dx, dy)
    IN  CASE pname \in {"dark_empress", "phase_shift", "shadow_jump"} ->
                ~(tgt # "" /\ ColorOf(tgt) = color)
          [] pname = "royal_teleport" ->
                /\ tgt # ""
                /\ ColorOf(tgt) = color
                /\ ~(pl[src_file][src_row].coord[1] = dx
                     /\ pl[src_file][src_row].coord[2] = dy)
          [] pname \in {"fortress_field", "sacrifice"} -> TRUE
          [] OTHER -> ~(tgt # "" /\ ColorOf(tgt) = color)

(* A _consume_charge that asks for a charge and takes none. *)
_consume_charge_untaken(s, color) == Result(s, s.charges[color] > 0)

_consume_charge(s, color) ==
    IF s.charges[color] <= 0 THEN Result(s, FALSE)
    ELSE Result([s EXCEPT !.charges[color] = @ - 1], TRUE)

_clear_preview(s, full) ==
    LET c == [s EXCEPT !.preview_moves = <<>>, !.preview_source = None,
                       !.preview_selected = None, !.power_preview_name = NoName,
                       !.power_preview_active = FALSE]
    IN  IF full THEN [c EXCEPT !.previewing = FALSE, !.moves = <<>>] ELSE c

expire_fortress_zones(s) ==
    LET aged == [i \in 1..Len(s.fortress_zones) |->
                    [s.fortress_zones[i] EXCEPT !.ttl = @ - 1]]
        Alive(z) == z.ttl > 0
    IN  [s EXCEPT !.fortress_zones = SelectSeq(aged, Alive)]

def__update_king_recently_checked(s) ==
    [s EXCEPT !.king_recently_checked =
        [white |-> is_in_check(s.piece_location, "white"),
         black |-> is_in_check(s.piece_location, "black")]]

_apply_move_without_checks(s, src_file, src_row, dst_x, dst_y, simulate) ==
    LET pl == s.piece_location
        piece_name == pl[src_file][src_row].name
        dst == xy_to_square(dst_x, dst_y)
    IN
    IF piece_name = "" THEN Result(s, FALSE)
    ELSE
    LET tgt == pl[dst[1]][dst[2]].name
        color == ColorOf(piece_name)
        kind == KindOf(piece_name)
        landed == IF kind = "pawn" /\ ((color = "white" /\ dst_y = 0)
                                        \/ (color = "black" /\ dst_y = 7))
                  THEN Name(color, "queen") ELSE piece_name
        moved == [s EXCEPT
                     !.captured = IF tgt # "" /\ ~simulate THEN Append(@, tgt) ELSE @,
                     !.piece_location =
                         [[pl EXCEPT ![dst[1]][dst[2]].name = piece_name,
                                     ![src_file][src_row].name = "",
                                     ![src_file][src_row].selected = FALSE]
                             EXCEPT ![dst[1]][dst[2]].name = landed],
                     !.has_moved = Set(@, <<src_file, src_row>>, TRUE)]
    IN  IF simulate THEN Result(moved, TRUE)
        ELSE Result([moved EXCEPT
                        !.last_move = <<square_to_xy(src_file, src_row),
                                        <<dst_x, dst_y>>, piece_name>>,
                        !.turn = SwapTurn(s.turn)], TRUE)

----------------------------------------------------------------------------
(* The six activations: superchess.py *)

(* A teleport that takes the target's square and leaves the king's square empty. *)
_activate_royal_teleport_replacing(s, src_file, src_row, dst_x, dst_y) ==
    LET pl == s.piece_location
        src_piece == pl[src_file][src_row].name
        dst == xy_to_square(dst_x, dst_y)
        target_piece == pl[dst[1]][dst[2]].name
    IN  IF src_piece = "" \/ KindOf(src_piece) # "king" THEN Result(s, FALSE)
        ELSE IF target_piece = "" \/ ColorOf(target_piece) # ColorOf(src_piece)
        THEN Result(s, FALSE)
        ELSE Result([s EXCEPT
                        !.piece_location =
                            [pl EXCEPT ![dst[1]][dst[2]].name = src_piece,
                                       ![src_file][src_row].name = "",
                                       ![src_file][src_row].selected = FALSE,
                                       ![dst[1]][dst[2]].selected = FALSE],
                        !.has_moved = Set(Set(@, <<src_file, src_row>>, TRUE), dst, TRUE),
                        !.last_move = <<square_to_xy(src_file, src_row),
                                        <<dst_x, dst_y>>, src_piece>>,
                        !.turn = SwapTurn(s.turn)], TRUE)

_activate_royal_teleport(s, src_file, src_row, dst_x, dst_y) ==
    LET pl == s.piece_location
        src_piece == pl[src_file][src_row].name
        dst == xy_to_square(dst_x, dst_y)
        target_piece == pl[dst[1]][dst[2]].name
    IN  IF src_piece = "" \/ KindOf(src_piece) # "king" THEN Result(s, FALSE)
        ELSE IF target_piece = "" \/ ColorOf(target_piece) # ColorOf(src_piece)
        THEN Result(s, FALSE)
        ELSE Result([s EXCEPT
                        !.piece_location =
                            [pl EXCEPT ![dst[1]][dst[2]].name = src_piece,
                                       ![src_file][src_row].name = target_piece,
                                       ![src_file][src_row].selected = FALSE,
                                       ![dst[1]][dst[2]].selected = FALSE],
                        !.has_moved = Set(Set(@, <<src_file, src_row>>, TRUE), dst, TRUE),
                        !.last_move = <<square_to_xy(src_file, src_row),
                                        <<dst_x, dst_y>>, src_piece>>,
                        !.turn = SwapTurn(s.turn)], TRUE)

(* _activate_dark_empress and _activate_shadow_jump: the same code for the queen and
   for the knight. *)
ActivateJump(s, kind, src_file, src_row, dst_x, dst_y) ==
    LET pl == s.piece_location
        src_piece == pl[src_file][src_row].name
    IN  IF src_piece = "" \/ KindOf(src_piece) # kind THEN Result(s, FALSE)
        ELSE IF Friendly(pl, dst_x, dst_y, ColorOf(src_piece)) THEN Result(s, FALSE)
        ELSE _apply_move_without_checks(s, src_file, src_row, dst_x, dst_y, FALSE)

_activate_dark_empress(s, src_file, src_row, dst_x, dst_y) ==
    ActivateJump(s, "queen", src_file, src_row, dst_x, dst_y)

_activate_shadow_jump(s, src_file, src_row, dst_x, dst_y) ==
    ActivateJump(s, "knight", src_file, src_row, dst_x, dst_y)

Sign(n) == IF n = 0 THEN 0 ELSE IF n > 0 THEN 1 ELSE -1

_activate_phase_shift(s, src_file, src_row, dst_x, dst_y) ==
    LET pl == s.piece_location
        src_piece == pl[src_file][src_row].name
    IN
    IF src_piece = "" \/ KindOf(src_piece) # "bishop" THEN Result(s, FALSE)
    ELSE
    LET color == ColorOf(src_piece)
        sxy == square_to_xy(src_file, src_row)
        sx == sxy[1]
        sy == sxy[2]
        dst_piece == At(pl, dst_x, dst_y)
        sx_sign == Sign(dst_x - sx)
        sy_sign == Sign(dst_y - sy)
        shield_x == dst_x - sx_sign
        shield_y == dst_y - sy_sign
        redirected ==
            /\ dst_piece # "" /\ KindOf(dst_piece) = "king" /\ ColorOf(dst_piece) # color
            /\ sx_sign # 0 /\ sy_sign # 0 /\ Abs(dst_x - sx) = Abs(dst_y - sy)
            /\ OnBoard(shield_x, shield_y)
            /\ Friendly(pl, shield_x, shield_y, ColorOf(dst_piece))
        Land(lx, ly) ==
            [s EXCEPT
                !.captured = IF At(pl, lx, ly) # "" THEN Append(@, At(pl, lx, ly)) ELSE @,
                !.piece_location =
                    [Put(pl, lx, ly, src_piece)
                        EXCEPT ![src_file][src_row].name = "",
                               ![src_file][src_row].selected = FALSE],
                !.has_moved = Set(@, <<src_file, src_row>>, TRUE),
                !.last_move = <<<<sx, sy>>, <<lx, ly>>, src_piece>>,
                !.turn = SwapTurn(s.turn)]
    IN  IF redirected THEN Result(Land(shield_x, shield_y), TRUE)
        ELSE IF Friendly(pl, dst_x, dst_y, color) THEN Result(s, FALSE)
        ELSE Result(Land(dst_x, dst_y), TRUE)

_activate_fortress_field(s, src_file, src_row, dst_x, dst_y) ==
    LET src_piece == s.piece_location[src_file][src_row].name
    IN  IF src_piece = "" \/ KindOf(src_piece) # "rook" THEN Result(s, FALSE)
        ELSE Result([s EXCEPT
                        !.fortress_zones =
                            Append(@, [owner |-> ColorOf(src_piece),
                                       squares |-> ZoneSquares(dst_x, dst_y),
                                       ttl |-> FortressTTL]),
                        !.turn = SwapTurn(s.turn)], TRUE)

_activate_sacrifice(s, src_file, src_row) ==
    LET pl == s.piece_location
        src_piece == pl[src_file][src_row].name
    IN
    IF src_piece = "" \/ KindOf(src_piece) # "pawn" THEN Result(s, FALSE)
    ELSE
    LET victims == SacrificeVictims(pl, ColorOf(src_piece),
                                    pl[src_file][src_row].coord[1],
                                    pl[src_file][src_row].coord[2])
    IN  Result([s EXCEPT
                   !.piece_location =
                       [ClearSquares(pl, victims) EXCEPT ![src_file][src_row].name = ""],
                   !.captured = @ \o NamesAt(pl, victims),
                   !.turn = SwapTurn(s.turn)], TRUE)

Activate(s, pname, sf, sr, dx, dy) ==
    CASE pname = "royal_teleport" -> _activate_royal_teleport(s, sf, sr, dx, dy)
      [] pname = "dark_empress" -> _activate_dark_empress(s, sf, sr, dx, dy)
      [] pname = "fortress_field" -> _activate_fortress_field(s, sf, sr, dx, dy)
      [] pname = "phase_shift" -> _activate_phase_shift(s, sf, sr, dx, dy)
      [] pname = "shadow_jump" -> _activate_shadow_jump(s, sf, sr, dx, dy)
      [] pname = "sacrifice" -> _activate_sacrifice(s, sf, sr)
      [] OTHER -> Result(s, FALSE)

----------------------------------------------------------------------------
(* validate_move as the variant overrides it: superchess.py *)

MaxCharges == 3

(* An award that forgets the cap of 563-564. *)
AwardChargeUncapped(c) == c + 1

(* superchess.py 563-564: the mover's charges after a capturing move *)
AwardCharge(c) == IF c < MaxCharges THEN IF c + 1 < MaxCharges THEN c + 1 ELSE MaxCharges
                  ELSE c

(* The branch taken while a preview is active; `simulate` and `source` are not read. *)
PreviewBranch(s, destination) ==
    LET src == IF s.preview_source = None THEN FindSelected(s.piece_location)
               ELSE s.preview_source
        cleared == _clear_preview(s, TRUE)
    IN
    IF src = None THEN Result(cleared, FALSE)
    ELSE IF ~InSeq(destination, s.preview_moves) THEN Result(cleared, FALSE)
    ELSE IF s.piece_location[src[1]][src[2]].name = "" THEN Result(cleared, FALSE)
    ELSE
    LET sf == src[1]
        sr == src[2]
        color == ColorOf(s.piece_location[sf][sr].name)
        pname == s.power_preview_name
    IN
    IF s.charges[color] <= 0 THEN Result(cleared, FALSE)
    ELSE IF ~_can_activate_power(s, sf, sr, pname, destination[1], destination[2])
    THEN Result(cleared, FALSE)
    ELSE
    LET paid == _consume_charge(s, color)
        applied == Activate(paid.s, pname, sf, sr, destination[1], destination[2])
        after == _clear_preview(
                     expire_fortress_zones(
                         _update_king_recently_checked(
                             [applied.s EXCEPT !.power_was_used_this_turn = TRUE])),
                     TRUE)
    IN  IF ~paid.ret THEN Result(cleared, FALSE)
        ELSE IF applied.ret
        THEN Result([after EXCEPT !.piece_location = ClearSelection(@),
                                  !.moves = <<>>], TRUE)
        ELSE Result(_clear_preview(applied.s, TRUE), FALSE)

(* The branch taken while no preview is active. *)
NormalBranch(s, destination, simulate, source, choice) ==
    LET mover == IF s.turn.white # 0 THEN "white" ELSE "black"
        src == IF source # None THEN source ELSE FindSelected(s.piece_location)
        piece == IF src = None THEN "" ELSE s.piece_location[src[1]][src[2]].name
        castle_blocked ==
            /\ src # None
            /\ piece # "" /\ KindOf(piece) = "king"
            /\ s.king_recently_checked[mover]
            /\ Abs(destination[1] - square_to_xy(src[1], src[2])[1]) = 2
            /\ destination[2] = square_to_xy(src[1], src[2])[2]
        base == Chess_validate_move(s, destination, simulate, source, choice)
        b == base.s
        mover_side == IF b.turn.black # 0 THEN "white" ELSE "black"
        awarded == IF Len(b.captured) > Len(s.captured)
                   THEN [b EXCEPT !.charges[mover_side] = AwardCharge(@)]
                   ELSE b
    IN  IF castle_blocked THEN Result(s, FALSE)
        ELSE IF base.ret /\ ~simulate
        THEN Result(_update_king_recently_checked(expire_fortress_zones(awarded)), TRUE)
        ELSE base

def_SuperChess_validate_move(s, destination, simulate, source, choice) ==
    IF s.previewing /\ s.power_preview_active THEN PreviewBranch(s, destination)
    ELSE IF ~s.previewing THEN NormalBranch(s, destination, simulate, source, choice)
    ELSE Chess_validate_move(s, destination, simulate, source, choice)

(* self.validate_move: the method of the class the object was made from. *)
def_validate_move(s, destination, simulate, source, choice) ==
    IF s.variant = "SuperChess"
    THEN SuperChess_validate_move(s, destination, simulate, source, choice)
    ELSE Chess_validate_move(s, destination, simulate, source, choice)

----------------------------------------------------------------------------
(* Legal moves: chess.py 266-297, superchess.py 606-636 *)

(* The loop of Chess.legal_moves_for from the i-th pseudo-legal destination on: the
   move is tried on the object itself, and the board, has_moved, last_move and
   position_counts are put back after each try. *)
RECURSIVE LegalLoop(_, _, _, _, _, _)
LegalLoop(s, color, src, pseudo, i, legal) ==
    IF i > Len(pseudo) THEN Result(s, legal)
    ELSE LET try == validate_move(s, pseudo[i], TRUE, src, "queen")
             ok == try.ret /\ ~is_in_check(try.s.piece_location, color)
             restored == [try.s EXCEPT !.piece_location = s.piece_location,
                                       !.has_moved = s.has_moved,
                                       !.last_move = s.last_move,
                                       !.position_counts = s.position_counts]
         IN  IF ok THEN LegalLoop(restored, color, src, pseudo, i + 1,
                                  Append(legal, pseudo[i]))
             ELSE LegalLoop(restored, color, src, pseudo, i + 1, legal)

(* A legal_moves_for that keeps every pseudo-legal destination. *)
Chess_legal_moves_for_unfiltered(s, piece_name, piece_coord) ==
    Result(s, possible_moves(s, piece_name, piece_coord))

def_Chess_legal_moves_for(s, piece_name, piece_coord) ==
    LegalLoop(s, ColorOf(piece_name), xy_to_square(piece_coord[1], piece_coord[2]),
              possible_moves(s, piece_name, piece_coord), 1, <<>>)

def_SuperChess_legal_moves_for(s, piece_name, piece_coord) ==
    LET base == Chess_legal_moves_for(s, piece_name, piece_coord)
        color == ColorOf(piece_name)
        zones == base.s.fortress_zones
        Open(dest) == ~\E i \in 1..Len(zones) :
                          zones[i].owner # color /\ InSeq(dest, zones[i].squares)
        filtered == SelectSeq(base.ret, Open)
        NotCastle(dest) == ~(Abs(dest[1] - piece_coord[1]) = 2 /\ dest[2] = piece_coord[2])
    IN  IF KindOf(piece_name) = "king" /\ base.s.king_recently_checked[color]
        THEN Result(base.s, SelectSeq(filtered, NotCastle))
        ELSE Result(base.s, filtered)

def_legal_moves_for(s, piece_name, piece_coord) ==
    IF s.variant = "SuperChess" THEN SuperChess_legal_moves_for(s, piece_name, piece_coord)
    ELSE Chess_legal_moves_for(s, piece_name, piece_coord)

(* The squares holding a piece of `color`, in the order the loops over
   piece_location meet them.  The loops below try moves on the object and put the
   board back after each try, so the squares they stop at are those of the board
   they started from. *)
PiecesOf(pl, color) ==
    LET Own(sq) == pl[sq[1]][sq[2]].name # "" /\ ColorOf(pl[sq[1]][sq[2]].name) = color
    IN  SelectSeq(FileMajor, Own)

RECURSIVE HasLegalLoop(_, _, _, _)
HasLegalLoop(s, color, squares, i) ==
    IF i > Len(squares) THEN Result(s, FALSE)
    ELSE LET cell == s.piece_location[squares[i][1]][squares[i][2]]
             found == legal_moves_for(s, cell.name, cell.coord)
         IN  IF found.ret # <<>> THEN Result(found.s, TRUE)
             ELSE HasLegalLoop(found.s, color, squares, i + 1)

def_has_legal_moves(s, color) ==
    HasLegalLoop(s, color, PiecesOf(s.piece_location, color), 1)

RECURSIVE AllLegalLoop(_, _, _, _, _)
AllLegalLoop(s, color, squares, i, acc) ==
    IF i > Len(squares) THEN Result(s, acc)
    ELSE LET sq == squares[i]
             cell == s.piece_location[sq[1]][sq[2]]
             found == legal_moves_for(s, cell.name, cell.coord)
         IN  IF cell.name # "" /\ ColorOf(cell.name) = color
             THEN AllLegalLoop(found.s, color, squares, i + 1,
                      acc \o [k \in 1..Len(found.ret) |-> <<sq, found.ret[k]>>])
             ELSE AllLegalLoop(s, color, squares, i + 1, acc)

def_get_all_legal_moves(s, color) ==
    AllLegalLoop(s, color, PiecesOf(s.piece_location, color), 1, <<>>)

----------------------------------------------------------------------------
(* Outcome, clicks, the AI: chess.py *)

Capitalize(color) == IF color = "white" THEN "White" ELSE "Black"

(* Checks after a move that call every position without a legal move a stalemate. *)
_after_move_checks_stalemate_only(s, turn_) ==
    LET opponent == IF turn_ = "black" THEN "white" ELSE "black"
        any == has_legal_moves(s, opponent)
        key == get_position_key(any.s)
    IN  IF ~any.ret THEN [any.s EXCEPT !.winner = "Stalemate"]
        ELSE IF Get(any.s.position_counts, key, 0) >= 3
        THEN [any.s EXCEPT !.winner = "Threefold"]
        ELSE any.s

(* Checks after a move that call the second occurrence of a position a draw. *)
_after_move_checks_second_occurrence(s, turn_) ==
    LET opponent == IF turn_ = "black" THEN "white" ELSE "black"
        in_check == is_in_check(s.piece_location, opponent)
        any == has_legal_moves(s, opponent)
        key == get_position_key(any.s)
    IN  IF in_check /\ ~any.ret THEN [any.s EXCEPT !.winner = Capitalize(turn_)]
        ELSE IF ~in_check /\ ~any.ret THEN [any.s EXCEPT !.winner = "Stalemate"]
        ELSE IF Get(any.s.position_counts, key, 0) >= 2
        THEN [any.s EXCEPT !.winner = "Threefold"]
        ELSE any.s

def__after_move_checks(s, turn_) ==
    LET opponent == IF turn_ = "black" THEN "white" ELSE "black"
        in_check == is_in_check(s.piece_location, opponent)
        any == has_legal_moves(s, opponent)
        key == get_position_key(any.s)
    IN  IF in_check /\ ~any.ret THEN [any.s EXCEPT !.winner = Capitalize(turn_)]
        ELSE IF ~in_check /\ ~any.ret THEN [any.s EXCEPT !.winner = "Stalemate"]
        ELSE IF Get(any.s.position_counts, key, 0) >= 3
        THEN [any.s EXCEPT !.winner = "Threefold"]
        ELSE any.s

(* move_piece(turn) when get_selected_square returns the square `square`; `choice` is
   what ask_promotion returns if the move promotes. *)
def_move_piece(s, turn_, square, choice) ==
    IF s.winner # "" THEN s
    ELSE
    LET cell == s.piece_location[square[1]][square[2]]
        selected == FindSelected(s.piece_location)
        moved == validate_move(s, cell.coord, FALSE, selected, choice)
        after == [moved.s EXCEPT !.moves = <<>>]
        TryMove == IF ~InSeq(cell.coord, s.moves) THEN s
                   ELSE IF selected = None THEN s
                   ELSE IF moved.ret THEN _after_move_checks(after, turn_)
                   ELSE after
        found == legal_moves_for(s, cell.name, cell.coord)
    IN  IF cell.name = "" THEN TryMove
        ELSE IF ColorOf(cell.name) = turn_
        THEN [found.s EXCEPT
                 !.moves = found.ret,
                 !.piece_location =
                     [ClearSelection(@) EXCEPT ![square[1]][square[2]].selected = TRUE]]
        ELSE TryMove

(* random.choice(seq) when the generator draws `pick` (1-based, reduced to the length
   of the list). *)
Choice(seq, pick) == seq[((pick - 1) % Len(seq)) + 1]

def_Chess_ai_move(s, pick) ==
    IF s.winner # "" THEN Result(s, FALSE)
    ELSE IF s.turn.black = 0 THEN Result(s, FALSE)
    ELSE
    LET all == get_all_legal_moves(s, "black")
        pl == all.s.piece_location
        Captures(m) == At(pl, m[2][1], m[2][2]) # ""
                       /\ ColorOf(At(pl, m[2][1], m[2][2])) = "white"
        capture_moves == SelectSeq(all.ret, Captures)
        chosen == IF capture_moves # <<>> THEN Choice(capture_moves, pick)
                  ELSE Choice(all.ret, pick)
        moved == validate_move([all.s EXCEPT !.ai_auto_promote = TRUE],
                               chosen[2], FALSE, chosen[1], "queen")
        done == [moved.s EXCEPT !.ai_auto_promote = FALSE]
    IN  IF all.ret = <<>> THEN Result(all.s, FALSE)
        ELSE IF moved.ret THEN Result(_after_move_checks(done, "black"), TRUE)
        ELSE Result(done, FALSE)

----------------------------------------------------------------------------
(* Preview, commit, cancel, the variant's AI: superchess.py *)

(* The filter of toggle_preview (127-141) and of ai_move (663-674): each raw target is
   applied to the object itself and the board, has_moved and last_move are put back. *)
RECURSIVE PreviewFilter(_, _, _, _, _, _, _)
PreviewFilter(s, backup, sf, sr, color, raw, legal) ==
    IF raw = <<>> THEN Result(s, legal)
    ELSE LET tried == apply_super_move_simulate(s, sf, sr, Head(raw)).s
             safe == ~is_in_check(tried.piece_location, color)
             restored == [tried EXCEPT !.piece_location = backup.piece_location,
                                       !.has_moved = backup.has_moved,
                                       !.last_move = backup.last_move]
         IN  IF safe THEN PreviewFilter(restored, backup, sf, sr, color, Tail(raw),
                                        Append(legal, Head(raw)))
             ELSE PreviewFilter(restored, backup, sf, sr, color, Tail(raw), legal)

def_toggle_preview(s, color) ==
    IF s.previewing
    THEN LET c == _clear_preview(s, TRUE)
             sel == FindSelected(c.piece_location)
             cell == c.piece_location[sel[1]][sel[2]]
             found == legal_moves_for(c, cell.name, cell.coord)
         IN  IF sel # None /\ cell.name # "" /\ ColorOf(cell.name) = color
             THEN [found.s EXCEPT !.moves = found.ret]
             ELSE [c EXCEPT !.moves = <<>>]
    ELSE
    LET sel == FindSelected(s.piece_location)
    IN
    IF sel = None THEN s
    ELSE
    LET pname == s.piece_location[sel[1]][sel[2]].name
        raw == super_moves_for(s, pname, s.piece_location[sel[1]][sel[2]].coord)
        filtered == PreviewFilter(s, s, sel[1], sel[2], color, raw, <<>>)
    IN  IF pname = "" \/ ColorOf(pname) # color THEN s
        ELSE IF s.charges[color] <= 0 THEN s
        ELSE IF raw = <<>> THEN s
        ELSE IF filtered.ret = <<>> THEN filtered.s
        ELSE [filtered.s EXCEPT !.previewing = TRUE,
                                !.power_preview_active = TRUE,
                                !.preview_moves = filtered.ret,
                                !.preview_source = sel,
                                !.preview_selected = None,
                                !.moves = filtered.ret,
                                !.power_preview_name = PowerOf(KindOf(pname))]

def_start_power_preview_for_selected(s) ==
    LET sel == FindSelected(s.piece_location)
    IN
    IF sel = None THEN s
    ELSE
    LET cell == s.piece_location[sel[1]][sel[2]]
        toggled == toggle_preview(s, ColorOf(cell.name))
    IN  IF cell.name = "" THEN s
        ELSE [toggled EXCEPT !.preview_source = sel,
                             !.preview_moves = super_moves_for(toggled, cell.name, cell.coord)]

(* zone.get("committed", False) *)
Committed(zone) == IF "committed" \in DOMAIN zone THEN zone["committed"] ELSE FALSE

cancel_power_preview(s) ==
    [s EXCEPT !.previewing = FALSE, !.power_preview_active = FALSE,
              !.fortress_zones = SelectSeq(@, Committed)]

def_commit_power_preview(s, board_xy) ==
    IF ~s.previewing THEN Result(s, FALSE)
    ELSE IF ~InSeq(board_xy, s.preview_moves) THEN Result(s, FALSE)
    ELSE IF s.preview_source = None /\ FindSelected(s.piece_location) = None
    THEN Result(_clear_preview(s, TRUE), FALSE)
    ELSE validate_move(s, board_xy, FALSE,
                       IF s.preview_source = None THEN FindSelected(s.piece_location)
                       ELSE s.preview_source, "queen")

(* The scan of SuperChess.ai_move (654-693) from the i-th square on: the first black
   piece with a target that survives the filter is committed; `pick` is the draw of
   random.choice. *)
RECURSIVE AiPowerScan(_, _, _, _)
AiPowerScan(s, squares, i, pick) ==
    IF i > Len(squares) THEN Result(s, FALSE)
    ELSE
    LET f == squares[i][1]
        r == squares[i][2]
        p == s.piece_location[f][r].name
        raw == super_moves_for(s, p, s.piece_location[f][r].coord)
        filtered == PreviewFilter(s, s, f, r, "black", raw, <<>>)
        staged == [filtered.s EXCEPT !.previewing = TRUE,
                                     !.power_preview_active = TRUE,
                                     !.preview_moves = filtered.ret,
                                     !.preview_source = <<f, r>>,
                                     !.power_preview_name = PowerOf(KindOf(p))]
    IN  IF raw = <<>> THEN AiPowerScan(s, squares, i + 1, pick)
        ELSE IF filtered.ret = <<>> THEN AiPowerScan(filtered.s, squares, i + 1, pick)
        ELSE Result(validate_move(staged, Choice(filtered.ret, pick), FALSE,
                                  <<f, r>>, "queen").s, TRUE)

(* `use_power` is the outcome of random.random() < 0.35. *)
def_SuperChess_ai_move(s, use_power, pick) ==
    IF s.winner # "" THEN Result(s, FALSE)
    ELSE IF s.turn.black = 0 THEN Result(s, FALSE)
    ELSE LET scan == AiPowerScan(s, PiecesOf(s.piece_location, "black"), 1, pick)
         IN  IF s.charges.black > 0 /\ use_power
             THEN IF scan.ret THEN scan ELSE Chess_ai_move(scan.s, pick)
             ELSE Chess_ai_move(s, pick)

def_ai_move(s, use_power, pick) ==
    IF s.variant = "SuperChess" THEN SuperChess_ai_move(s, use_power, pick)
    ELSE Chess_ai_move(s, pick)

----------------------------------------------------------------------------
(* The method table *)

Call(m, a) ==
    CASE m = "is_square_attacked" ->
             def_is_square_attacked(a[1], a[2], a[3])
      [] m = "is_in_check" ->
             def_is_in_check(a[1], a[2])
      [] m = "possible_moves" ->
             def_possible_moves(a[1], a[2], a[3])
      [] m = "get_position_key" ->
             def_get_position_key(a[1])
      [] m = "Chess_validate_move" ->
             def_Chess_validate_move(a[1], a[2], a[3], a[4], a[5])
      [] m = "super_moves_for" ->
             def_super_moves_for(a[1], a[2], a[3])
      [] m = "apply_super_move_simulate" ->
             def_apply_super_move_simulate(a[1], a[2], a[3], a[4])
      [] m = "_update_king_recently_checked" ->
             def__update_king_recently_checked(a[1])
      [] m = "SuperChess_validate_move" ->
             def_SuperChess_validate_move(a[1], a[2], a[3], a[4], a[5])
      [] m = "validate_move" ->
             def_validate_move(a[1], a[2], a[3], a[4], a[5])
      [] m = "Chess_legal_moves_for" ->
             def_Chess_legal_moves_for(a[1], a[2], a[3])
      [] m = "SuperChess_legal_moves_for" ->
             def_SuperChess_legal_moves_for(a[1], a[2], a[3])
      [] m = "legal_moves_for" ->
             def_legal_moves_for(a[1], a[2], a[3])
      [] m = "has_legal_moves" ->
             def_has_legal_moves(a[1], a[2])
      [] m = "get_all_legal_moves" ->
             def_get_all_legal_moves(a[1], a[2])
      [] m = "_after_move_checks" ->
             def__after_move_checks(a[1], a[2])
      [] m = "move_piece" ->
             def_move_piece(a[1], a[2], a[3], a[4])
      [] m = "Chess_ai_move" ->
             def_Chess_ai_move(a[1], a[2])
      [] m = "SuperChess_ai_move" ->
             def_SuperChess_ai_move(a[1], a[2], a[3])
      [] m = "ai_move" ->
             def_ai_move(a[1], a[2], a[3])
      [] m = "toggle_preview" ->
             def_toggle_preview(a[1], a[2])
      [] m = "start_power_preview_for_selected" ->
             def_start_power_preview_for_selected(a[1])
      [] m = "commit_power_preview" ->
             def_commit_power_preview(a[1], a[2])

----------------------------------------------------------------------------
(* Construction and reset: chess.py 57-98, superchess.py 36-48 *)

BackRank == <<"rook", "knight", "bishop", "queen", "king", "bishop", "knight", "rook">>

StartName(i, r) ==
    CASE r = 8 -> Name("black", BackRank[i])
      [] r = 7 -> "black_pawn"
      [] r = 2 -> "white_pawn"
      [] r = 1 -> Name("white", BackRank[i])
      [] OTHER -> ""

StartBoard ==
    [f \in {Files[i] : i \in 1..8} |->
        [r \in Rows |->
            [name |-> StartName(Ord(f) - 96, r), selected |-> FALSE,
             coord |-> <<Ord(f) - 97, 8 - r>>]]]

Chess_reset(s) ==
    LET cleared == [s EXCEPT !.moves = <<>>,
                             !.turn = [black |-> 0, white |-> 1],
                             !.winner = "",
                             !.captured = <<>>,
                             !.last_move = None,
                             !.piece_location = StartBoard,
                             !.has_moved = [sq \in {<<Files[i], r>> : i \in 1..8, r \in {1, 8}}
                                               |-> FALSE],
                             !.position_counts = <<>>]
    IN  [cleared EXCEPT !.position_counts = Set(<<>>, get_position_key(cleared), 1)]

(* A reset of the variant that leaves the charges as they are. *)
SuperChess_reset_keeping_charges(s) ==
    [Chess_reset(s) EXCEPT !.previewing = FALSE,
                           !.power_preview_active = FALSE,
                           !.preview_moves = <<>>,
                           !.preview_source = None,
                           !.preview_selected = None,
                           !.power_preview_name = NoName,
                           !.fortress_zones = <<>>,
                           !.power_was_used_this_turn = FALSE,
                           !.king_recently_checked = [white |-> FALSE, black |-> FALSE]]

SuperChess_reset(s) ==
    [Chess_reset(s) EXCEPT !.charges = [white |-> 0, black |-> 0],
                           !.previewing = FALSE,
                           !.power_preview_active = FALSE,
                           !.preview_moves = <<>>,
                           !.preview_source = None,
                           !.preview_selected = None,
                           !.power_preview_name = NoName,
                           !.fortress_zones = <<>>,
                           !.power_was_used_this_turn = FALSE,
                           !.king_recently_checked = [white |-> FALSE, black |-> FALSE]]

reset(s) == IF s.variant = "SuperChess" THEN SuperChess_reset(s) ELSE Chess_reset(s)

(* The object before __init__ has run; reset fills in everything but the class and
   ai_auto_promote.  A Chess object has no superpower attributes: they stay at these
   values and nothing of class Chess reads them. *)
Blank(v) ==
    [variant |-> v, piece_location |-> StartBoard, moves |-> <<>>,
     turn |-> [black |-> 0, white |-> 1], captured |-> <<>>, winner |-> "",
     has_moved |-> <<>>, last_move |-> None, position_counts |-> <<>>,
     ai_auto_promote |-> FALSE, charges |-> [white |-> 0, black |-> 0],
     previewing |-> FALSE, power_preview_active |-> FALSE, preview_moves |-> <<>>,
     preview_source |-> None, preview_selected |-> None, power_preview_name |-> NoName,
     fortress_zones |-> <<>>, power_was_used_this_turn |-> FALSE,
     king_recently_checked |-> [white |-> FALSE, black |-> FALSE]]

__init__(v) == reset(Blank(v))

----------------------------------------------------------------------------
(* The environment: what the players do in one game *)

(* Half-moves played in each session, games started with Restart, and
   the draws of random.choice tried. *)
MaxPlyBase == 4

MaxPlyCaptures == 9

MaxPlyFortress == 6

MaxPlyKing == 7

MaxPlyEngine == 6

(* The knights go out and back twice: the starting position comes a third time. *)
MaxPlyRepeat == 8

(* The shortest mate. *)
MaxPlyMate == 4

(* Two captures by white, a reply, and a turn passed under a preview. *)
MaxPlyStale == 8

(* The bishop takes on b5, the knight leaves g1, and white castles or swaps the king. *)
MaxPlyCastle == 7

(* Each side takes once, the f pawn advances two squares, black builds a fortress. *)
MaxPlyPassant == 6

(* The queen takes on e4 with check while white may still castle. *)
MaxPlyCheck == 6

(* The bishop on e2 shifts to h5 once black's f and g pawns are gone from the
   diagonal. *)
MaxPlyPowerMate == 7

(* White's first move and the AI's answer. *)
MaxPlyReply == 2

(* A knight takes on a7 and c8, the king changes places with it, black answers,
   and the king's power is previewed again on the eighth rank. *)
MaxPlyFarRank == 11

(* The AI's bishop reaches a6 behind its own pawn on b5 and the AI has taken the
   pawn white gave up on d6; white has made its fourth move. *)
MaxPlyScan == 7

MaxResets == 1

(* Fortress zones kept at once: a preview of a rook's power leaves one behind. *)
MaxZones == 2

MaxAiPick == 2

(* The places of b7-b5 and of Bc8-a6 in the AI's list of legal moves when it draws
   them in the game of the scan. *)
DrawPawn == 4

DrawBishop == 9

Sq(f, r) == <<f, r>>

(* The games played to try single rules: castling, a shielded king on a bishop's
   diagonal and the king's swap; a pawn beside a pawn that advanced two squares; a
   check while castling is still possible; a mate given by a power; a game against
   the AI with the clock. *)
Rules ==
    << [variant |-> "SuperChess", game_mode |-> "pvp", plies |-> MaxPlyCastle,
        picks |-> 1..MaxAiPick, clock |-> FALSE, restart |-> FALSE,
        clicks |-> {Sq("e", 2), Sq("e", 4), Sq("b", 7), Sq("b", 5), Sq("f", 1),
                    Sq("c", 8), Sq("g", 1), Sq("h", 3), Sq("e", 1)}],
       [variant |-> "SuperChess", game_mode |-> "pvp", plies |-> MaxPlyPassant,
        picks |-> 1..MaxAiPick, clock |-> FALSE, restart |-> FALSE,
        clicks |-> {Sq("e", 2), Sq("e", 4), Sq("b", 8), Sq("a", 6), Sq("f", 1),
                    Sq("b", 7), Sq("f", 2), Sq("f", 4), Sq("a", 8)}],
       [variant |-> "Chess", game_mode |-> "pvp", plies |-> MaxPlyCheck,
        picks |-> 1..MaxAiPick, clock |-> FALSE, restart |-> FALSE,
        clicks |-> {Sq("e", 2), Sq("e", 4), Sq("e", 7), Sq("e", 5), Sq("f", 1),
                    Sq("c", 4), Sq("d", 8), Sq("h", 4), Sq("g", 1), Sq("f", 3)}],
       [variant |-> "SuperChess", game_mode |-> "pvp", plies |-> MaxPlyPowerMate,
        picks |-> 1..MaxAiPick, clock |-> FALSE, restart |-> FALSE,
        clicks |-> {Sq("e", 2), Sq("e", 4), Sq("f", 7), Sq("f", 5), Sq("g", 7),
                    Sq("g", 5), Sq("f", 1), Sq("h", 5), Sq("g", 4)}],
       [variant |-> "SuperChess", game_mode |-> "engine", plies |-> MaxPlyReply,
        picks |-> 1..MaxAiPick, clock |-> TRUE, restart |-> TRUE,
        clicks |-> {Sq("e", 2), Sq("e", 4)}],
       [variant |-> "SuperChess", game_mode |-> "pvp", plies |-> MaxPlyFarRank,
        picks |-> 1..MaxAiPick, clock |-> FALSE, restart |-> FALSE,
        clicks |-> {Sq("b", 1), Sq("c", 3), Sq("b", 5), Sq("a", 7), Sq("c", 8),
                    Sq("g", 8), Sq("f", 6), Sq("e", 1)}],
       [variant |-> "SuperChess", game_mode |-> "engine", plies |-> MaxPlyScan,
        picks |-> {1, DrawPawn, DrawBishop}, clock |-> FALSE, restart |-> FALSE,
        clicks |-> {Sq("d", 2), Sq("d", 4), Sq("d", 5), Sq("d", 6), Sq("c", 1)}] >>

(* Each session is the class the game is played with (game.py 727-729), its mode
   ("engine": the AI also moves for black), the squares the players click, whether
   the clock can run out and whether a new game is started. *)
Sessions ==
    << [variant |-> "Chess", game_mode |-> "engine", plies |-> MaxPlyBase,
        picks |-> 1..MaxAiPick, clock |-> TRUE, restart |-> TRUE,
        clicks |-> {Sq("e", 2), Sq("e", 4), Sq("d", 7), Sq("d", 5)}],
       [variant |-> "SuperChess", game_mode |-> "pvp", plies |-> MaxPlyCaptures,
        picks |-> 1..MaxAiPick, clock |-> FALSE, restart |-> FALSE,
        clicks |-> {Sq("e", 2), Sq("e", 4), Sq("d", 7), Sq("d", 5), Sq("c", 7),
                    Sq("c", 6), Sq("b", 7), Sq("a", 8), Sq("a", 7), Sq("a", 6),
                    Sq("a", 5)}],
       [variant |-> "SuperChess", game_mode |-> "pvp", plies |-> MaxPlyFortress,
        picks |-> 1..MaxAiPick, clock |-> FALSE, restart |-> FALSE,
        clicks |-> {Sq("e", 2), Sq("e", 4), Sq("d", 7), Sq("d", 5), Sq("f", 1),
                    Sq("a", 6), Sq("a", 8), Sq("h", 2), Sq("h", 3), Sq("h", 4),
                    Sq("e", 3), Sq("b", 7)}],
       [variant |-> "SuperChess", game_mode |-> "pvp", plies |-> MaxPlyKing,
        picks |-> 1..MaxAiPick, clock |-> FALSE, restart |-> FALSE,
        clicks |-> {Sq("e", 2), Sq("e", 4), Sq("d", 7), Sq("d", 5), Sq("f", 1),
                    Sq("b", 5), Sq("e", 8), Sq("g", 2)}],
       [variant |-> "SuperChess", game_mode |-> "engine", plies |-> MaxPlyEngine,
        picks |-> 1..MaxAiPick, clock |-> FALSE, restart |-> TRUE,
        clicks |-> {Sq("e", 2), Sq("e", 4), Sq("f", 1), Sq("a", 6), Sq("e", 5)}],
       [variant |-> "Chess", game_mode |-> "pvp", plies |-> MaxPlyRepeat,
        picks |-> 1..MaxAiPick, clock |-> FALSE, restart |-> FALSE,
        clicks |-> {Sq("g", 1), Sq("f", 3), Sq("g", 8), Sq("f", 6)}],
       [variant |-> "SuperChess", game_mode |-> "pvp", plies |-> MaxPlyMate,
        picks |-> 1..MaxAiPick, clock |-> FALSE, restart |-> FALSE,
        clicks |-> {Sq("f", 2), Sq("f", 3), Sq("e", 7), Sq("e", 5), Sq("g", 2),
                    Sq("g", 4), Sq("d", 8), Sq("h", 4)}],
       [variant |-> "SuperChess", game_mode |-> "pvp", plies |-> MaxPlyStale,
        picks |-> 1..MaxAiPick, clock |-> FALSE, restart |-> FALSE,
        clicks |-> {Sq("e", 2), Sq("e", 4), Sq("d", 7), Sq("d", 5), Sq("c", 7),
                    Sq("c", 6), Sq("b", 7), Sq("f", 1)}] >> \o Rules

MaxPly == Sessions[session].plies

(* The draws of random.choice tried for the AI in this game. *)
AiPicks == Sessions[session].picks

Clicks == Sessions[session].clicks

SideToMove == IF turn.black # 0 THEN "black" ELSE "white"

(* ask_promotion's answers tried: only a move onto the first or last row can ask. *)
PromotionChoices(square) == IF square[2] \in {1, 8} THEN {"queen", "knight"} ELSE {"queen"}

Progress(s) == IF s.turn # turn \/ s.last_move # last_move \/ s.captured # captured
               THEN 1 ELSE 0

Becomes(s) ==
    /\ variant' = s.variant
    /\ piece_location' = s.piece_location
    /\ moves' = s.moves
    /\ turn' = s.turn
    /\ captured' = s.captured
    /\ winner' = s.winner
    /\ has_moved' = s.has_moved
    /\ last_move' = s.last_move
    /\ position_counts' = s.position_counts
    /\ ai_auto_promote' = s.ai_auto_promote
    /\ charges' = s.charges
    /\ previewing' = s.previewing
    /\ power_preview_active' = s.power_preview_active
    /\ preview_moves' = s.preview_moves
    /\ preview_source' = s.preview_source
    /\ preview_selected' = s.preview_selected
    /\ power_preview_name' = s.power_preview_name
    /\ fortress_zones' = s.fortress_zones
    /\ power_was_used_this_turn' = s.power_was_used_this_turn
    /\ king_recently_checked' = s.king_recently_checked
    /\ UNCHANGED session

Step(s) == Becomes(s) /\ nmoves' = nmoves + Progress(s) /\ UNCHANGED nresets

(* The object as game.py constructs it for the session. *)
Constructed ==
    /\ nmoves = 0
    /\ nresets = 0
    /\ \E s \in {__init__(Sessions[session].variant)} :
           /\ variant = s.variant
           /\ piece_location = s.piece_location
           /\ moves = s.moves
           /\ turn = s.turn
           /\ captured = s.captured
           /\ winner = s.winner
           /\ has_moved = s.has_moved
           /\ last_move = s.last_move
           /\ position_counts = s.position_counts
           /\ ai_auto_promote = s.ai_auto_promote
           /\ charges = s.charges
           /\ previewing = s.previewing
           /\ power_preview_active = s.power_preview_active
           /\ preview_moves = s.preview_moves
           /\ preview_source = s.preview_source
           /\ preview_selected = s.preview_selected
           /\ power_preview_name = s.power_preview_name
           /\ fortress_zones = s.fortress_zones
           /\ power_was_used_this_turn = s.power_was_used_this_turn
           /\ king_recently_checked = s.king_recently_checked

Init ==
    /\ session \in 1..(Len(Sessions) - Len(Rules))
    /\ Constructed

InitRules ==
    /\ session \in (Len(Sessions) - Len(Rules) + 1)..Len(Sessions)
    /\ Constructed

(* game.py 873-880: a click on a board square reaches move_piece for the side to
   move; in a game against the AI, ai_move answers in the frame of white's move, so
   no click is handled while black is to move. *)
MovePiece ==
    /\ nmoves < MaxPly
    /\ Sessions[session].game_mode = "engine" => turn.white = 1
    /\ \E square \in Clicks : \E choice \in PromotionChoices(square) :
          Step(move_piece(St, SideToMove, square, choice))

(* game.py 877-880 *)
AiMove ==
    /\ nmoves < MaxPly
    /\ Sessions[session].game_mode = "engine"
    /\ winner = ""
    /\ turn.white = 0
    /\ \E use_power \in BOOLEAN : \E pick \in AiPicks :
          Step(ai_move(St, use_power, pick).s)

(* game.py 770-776, hud_tk.py 461-477: the S key, the Preview and Cancel buttons *)
StartPreview ==
    /\ variant = "SuperChess"
    /\ nmoves < MaxPly
    /\ Len(fortress_zones) < MaxZones
    /\ Step(start_power_preview_for_selected(St))

CancelPreview ==
    /\ variant = "SuperChess"
    /\ Step(cancel_power_preview(St))

(* game.py 785-805: a click on a board square while a preview is shown *)
ClickPreview ==
    /\ variant = "SuperChess"
    /\ power_preview_active
    /\ nmoves < MaxPly
    /\ \E square \in Clicks :
          LET xy == square_to_xy(square[1], square[2])
          IN  IF \/ InSeq(xy, preview_moves)
                 \/ preview_moves = <<>>
                 \/ power_preview_name \in {"fortress_field", "sacrifice"}
              THEN Step(commit_power_preview(St, xy).s)
              ELSE Step(cancel_power_preview(St))

(* game.py 1027: the clock runs out *)
Timeout ==
    /\ Sessions[session].clock
    /\ winner = ""
    /\ Step([St EXCEPT !.winner = "Timeout"])

(* game.py 768-769, hud_tk.py 479-486: a new game *)
Restart ==
    /\ Sessions[session].restart
    /\ nresets < MaxResets
    /\ Becomes(reset(St))
    /\ nresets' = nresets + 1
    /\ UNCHANGED nmoves

Next ==
    \/ MovePiece
    \/ AiMove
    \/ StartPreview
    \/ CancelPreview
    \/ ClickPreview
    \/ Timeout
    \/ Restart

Spec == Init /\ [][Next]_vars

(* The same program in the games of Rules. *)
SpecRules == InitRules /\ [][Next]_vars

----------------------------------------------------------------------------
(* Calls a client can make in a state, with arguments among the session's squares *)

ClickXY == {square_to_xy(sq[1], sq[2]) : sq \in Clicks}

Sources == Clicks \cup {None}

ExactlyOne(t) == (t.white = 1 /\ t.black = 0) \/ (t.white = 0 /\ t.black = 1)

BoardNames(pl) == [i \in 1..64 |-> pl[FileMajor[i][1]][FileMajor[i][2]].name]

----------------------------------------------------------------------------
(* C1: turn alternation.  Every successful real validate_move or commit swaps
   turn['white'] and turn['black'], exactly one of them being 1 before and after;
   a call that returns False, and every call with simulate=True, leaves the turn
   as it was. *)
C1_TurnAlternation ==
    /\ \A dest \in ClickXY : \A simulate \in BOOLEAN : \A source \in Sources :
          LET r == validate_move(St, dest, simulate, source, "queen")
          IN  IF r.ret /\ ~simulate
              THEN ExactlyOne(turn) /\ ExactlyOne(r.s.turn) /\ r.s.turn = SwapTurn(turn)
              ELSE r.s.turn = turn
    /\ variant = "SuperChess" =>
          \A dest \in ClickXY :
             LET r == commit_power_preview(St, dest)
             IN  IF r.ret
                 THEN ExactlyOne(turn) /\ ExactlyOne(r.s.turn) /\ r.s.turn = SwapTurn(turn)
                 ELSE r.s.turn = turn

(* The piece on a square and its legal moves, as legal_moves_for is called for it. *)
CellAt(s, sq) == s.piece_location[sq[1]][sq[2]]

LegalOf(s, sq) == legal_moves_for(s, CellAt(s, sq).name, CellAt(s, sq).coord)

(* One half-move made by clicks: the side to move selects a piece and then clicks a
   destination, both among the session's squares, and the turn passes. *)
SideOf(s) == IF s.turn.black # 0 THEN "black" ELSE "white"

HalfMoves(s) ==
    {t \in {move_piece(move_piece(s, SideOf(s), src, "queen"), SideOf(s), dst, "queen") :
               src \in Clicks, dst \in Clicks} : t.turn # s.turn}

(* A zone is told from the others by its owner and its squares. *)
Present(s, z) ==
    \E i \in 1..Len(s.fortress_zones) :
        s.fortress_zones[i].owner = z.owner /\ s.fortress_zones[i].squares = z.squares

(* No piece of the other side has a legal move onto a square of the zone. *)
Excluded(s, z) ==
    \A i \in 1..64 :
        LET cell == CellAt(s, FileMajor[i])
        IN  (cell.name # "" /\ ColorOf(cell.name) # z.owner) =>
                \A k \in 1..Len(LegalOf(s, FileMajor[i]).ret) :
                    ~InSeq(LegalOf(s, FileMajor[i]).ret[k], z.squares)

Kings(s, color) == Cardinality({i \in 1..64 : CellAt(s, FileMajor[i]).name = Name(color, "king")})

----------------------------------------------------------------------------
(* C2: simulation purity.  In every reachable state, a call of legal_moves_for for
   any piece, of has_legal_moves or of get_all_legal_moves leaves the live state as
   it was: board occupancy, has_moved, last_move, position_counts, turn, captured,
   charges, fortress zones and the preview state. *)
Live(s) ==
    <<BoardNames(s.piece_location), s.has_moved, s.last_move, s.position_counts, s.turn,
      s.captured, s.charges, s.fortress_zones, s.previewing, s.power_preview_active,
      s.preview_moves, s.preview_source, s.power_preview_name>>

C2_SimulationPurity ==
    /\ \A sq \in Clicks :
          CellAt(St, sq).name # "" => Live(LegalOf(St, sq).s) = Live(St)
    /\ \A color \in {"white", "black"} :
          /\ Live(has_legal_moves(St, color).s) = Live(St)
          /\ Live(get_all_legal_moves(St, color).s) = Live(St)

(* C3: charge bound.  In every reachable state of SuperChess each colour's charges
   are between 0 and 3. *)
C3_ChargeBound ==
    variant = "SuperChess" => \A color \in {"white", "black"} : charges[color] \in 0..3

(* White holds 3 charges and has made a fourth capture. *)
C3_Witness ==
    /\ variant = "SuperChess"
    /\ charges.white = 3
    /\ Cardinality({i \in 1..Len(captured) : ColorOf(captured[i]) = "black"}) >= 4

(* C4: fortress TTL.  The zone a fortress_field commit creates is in fortress_zones
   and keeps the other side's legal moves off its squares during the next two
   half-moves after the activation, and is gone from fortress_zones after them. *)
C4_FortressTTL ==
    (variant = "SuperChess" /\ power_preview_active /\ power_preview_name = "fortress_field") =>
        \A dest \in ClickXY :
            LET r == commit_power_preview(St, dest)
                z == r.s.fortress_zones[Len(r.s.fortress_zones)]
            IN  r.ret =>
                    /\ r.s.fortress_zones # <<>>
                    /\ Present(r.s, z) /\ Excluded(r.s, z)
                    /\ \A s1 \in HalfMoves(r.s) :
                          /\ Present(s1, z) /\ Excluded(s1, z)
                          /\ \A s2 \in HalfMoves(s1) : ~Present(s2, z)

(* C5: scenario 5.  A black rook commits fortress_field on its own square with one
   black charge: black's charges become 0, no white piece has a legal move onto a
   square of the zone at white's next two turns, and at white's turn after those
   the zone is no longer in force. *)
C5_Scenario5 ==
    (/\ variant = "SuperChess" /\ power_preview_active
     /\ power_preview_name = "fortress_field"
     /\ turn.black = 1 /\ charges.black = 1
     /\ preview_source # None) =>
        LET src == CellAt(St, preview_source)
            r == commit_power_preview(St, src.coord)
            z == r.s.fortress_zones[Len(r.s.fortress_zones)]
        IN  (src.name = Name("black", "rook") /\ r.ret) =>
                /\ r.s.charges.black = 0
                /\ r.s.fortress_zones # <<>>
                /\ Excluded(r.s, z)
                /\ \A s1 \in HalfMoves(r.s) : \A s2 \in HalfMoves(s1) :
                      /\ Excluded(s2, z)
                      /\ \A s3 \in HalfMoves(s2) : \A s4 \in HalfMoves(s3) :
                            ~Present(s4, z)

(* C6: the outcome is absorbing.  Once winner is set, validate_move, move_piece,
   ai_move and commit_power_preview are rejected and change nothing of the board,
   the turn, the captured list, the charges, the zones and the repetition table. *)
Standing(s) ==
    <<BoardNames(s.piece_location), s.turn, s.captured, s.charges, s.fortress_zones,
      s.position_counts>>

C6_TerminalAbsorbing ==
    winner # "" =>
        /\ \A dest \in ClickXY : \A source \in Sources :
              LET r == validate_move(St, dest, FALSE, source, "queen")
              IN  ~r.ret /\ Standing(r.s) = Standing(St)
        /\ \A sq \in Clicks : Standing(move_piece(St, SideToMove, sq, "queen")) = Standing(St)
        /\ \A use_power \in BOOLEAN :
              LET r == ai_move(St, use_power, 1)
              IN  ~r.ret /\ Standing(r.s) = Standing(St)
        /\ variant = "SuperChess" =>
              \A dest \in ClickXY :
                 LET r == commit_power_preview(St, dest)
                 IN  ~r.ret /\ Standing(r.s) = Standing(St)

(* C7: a move to a square that is not among the legal moves of the piece on the
   source square returns False and leaves board, has_moved, last_move, turn,
   captured, position_counts, charges and zones as they were. *)
Position(s) ==
    <<BoardNames(s.piece_location), s.has_moved, s.last_move, s.turn, s.captured,
      s.position_counts, s.charges, s.fortress_zones>>

C7_NonCandidateRejected ==
    \A source \in Clicks :
        CellAt(St, source).name # "" =>
            \A dest \in ClickXY :
                ~InSeq(dest, LegalOf(St, source).ret) =>
                    LET r == validate_move(St, dest, FALSE, source, "queen")
                    IN  ~r.ret /\ Position(r.s) = Position(St)

(* C8: a move from an empty source.  Chess.validate_move returns False and changes
   nothing when the source square is empty or, with source=None, when no square is
   selected; and it returns False in no other case. *)
C8_EmptySourceRejected ==
    \A dest \in ClickXY : \A simulate \in BOOLEAN : \A source \in Sources :
        LET resolved == IF source = None THEN FindSelected(piece_location) ELSE source
            empty == resolved = None \/ CellAt(St, resolved).name = ""
            r == Chess_validate_move(St, dest, simulate, source, "queen")
        IN  /\ empty => ~r.ret /\ r.s = St
            /\ ~r.ret => empty

(* A game under way in which a call names an empty square and is turned down, and
   another names a piece and is accepted. *)
C8_Witness ==
    /\ nmoves >= 1
    /\ \E dest \in ClickXY : \E source \in Clicks :
          /\ CellAt(St, source).name = ""
          /\ ~Chess_validate_move(St, dest, FALSE, source, "queen").ret
    /\ \E dest \in ClickXY : \E source \in Clicks :
          Chess_validate_move(St, dest, FALSE, source, "queen").ret

(* C9: a rejected superpower commit consumes nothing.  Whenever commit_power_preview
   or validate_move under an active preview returns False, the charges, the board,
   the turn, the captured list, last_move and the zones are as before the call. *)
Stake(s) ==
    <<s.charges, BoardNames(s.piece_location), s.turn, s.captured, s.last_move,
      s.fortress_zones>>

C9_RejectedCommitConsumesNothing ==
    variant = "SuperChess" =>
        \A dest \in ClickXY :
            /\ LET r == commit_power_preview(St, dest)
               IN  ~r.ret => Stake(r.s) = Stake(St)
            /\ (previewing /\ power_preview_active) =>
                  \A source \in Sources :
                      LET r == validate_move(St, dest, FALSE, source, "queen")
                      IN  ~r.ret => Stake(r.s) = Stake(St)

(* A preview is shown, the mover holds a charge, and a commit on one of the shown
   targets, a square that holds a piece of the mover's colour, is turned down. *)
C9_Witness ==
    /\ variant = "SuperChess" /\ previewing /\ power_preview_active
    /\ charges[SideToMove] > 0
    /\ \E dest \in ClickXY :
          /\ InSeq(dest, preview_moves)
          /\ At(piece_location, dest[1], dest[2]) # ""
          /\ ~commit_power_preview(St, dest).ret

(* C10: both kings stay on the board.  In every reachable state in which no outcome
   is set, each colour has exactly one king. *)
C10_BothKings ==
    winner = "" => Kings(St, "white") = 1 /\ Kings(St, "black") = 1

----------------------------------------------------------------------------
(* C11: legal moves are king-safe.  For every piece on one of the session's squares
   and every destination legal_moves_for returns for it, making that move for real
   with validate_move leaves the mover's own king not attacked. *)
C11_LegalMovesKingSafe ==
    \A sq \in Clicks :
        CellAt(St, sq).name # "" =>
            LET color == ColorOf(CellAt(St, sq).name)
                legal == LegalOf(St, sq)
            IN  \A k \in 1..Len(legal.ret) :
                    LET r == validate_move(legal.s, legal.ret[k], FALSE, sq, "queen")
                    IN  r.ret => ~is_in_check(r.s.piece_location, color)

(* The side to move has, on one of the session's squares, a piece with a
   pseudo-legal move that is filtered out and a legal move that is made for real. *)
C11_Witness ==
    /\ ~previewing
    /\ \E sq \in Clicks :
          /\ CellAt(St, sq).name # ""
          /\ ColorOf(CellAt(St, sq).name) = SideToMove
          /\ \E d \in ClickXY :
                /\ InSeq(d, possible_moves(St, CellAt(St, sq).name, CellAt(St, sq).coord))
                /\ ~InSeq(d, LegalOf(St, sq).ret)
          /\ \E k \in 1..Len(LegalOf(St, sq).ret) :
                validate_move(St, LegalOf(St, sq).ret[k], FALSE, sq, "queen").ret

----------------------------------------------------------------------------
(* The occurrences counted for the position of s. *)
Occurrences(s) == Get(s.position_counts, get_position_key(s), 0)

(* The outcome the rules give the position of s after a move by `mover`. *)
Outcome(s, mover) ==
    LET opponent == Other(mover)
        in_check == is_in_check(s.piece_location, opponent)
        any == has_legal_moves([s EXCEPT !.winner = ""], opponent).ret
    IN  IF in_check /\ ~any THEN Capitalize(mover)
        ELSE IF ~in_check /\ ~any THEN "Stalemate"
        ELSE IF Occurrences(s) >= 3 THEN "Threefold"
        ELSE ""

(* C12: outcome priority.  After a real move made through move_piece or ai_move the
   outcome is the mover's colour if the opponent is in check without a legal move,
   else Stalemate if the opponent has no legal move, else Threefold if the position
   has occurred three times, else empty. *)
C12_OutcomePriority ==
    winner = "" =>
        /\ \A sq \in Clicks :
              LET t == move_piece(St, SideToMove, sq, "queen")
              IN  t.turn # turn => t.winner = Outcome(t, SideToMove)
        /\ Sessions[session].game_mode = "engine" =>
              \A use_power \in BOOLEAN : \A pick \in 1..MaxAiPick :
                  LET r == ai_move(St, use_power, pick)
                  IN  r.ret => r.s.winner = Outcome(r.s, "black")

(* A move has just mated: the side to move is in check without a legal move and the
   other side is the winner. *)
C12_Witness ==
    /\ winner = Capitalize(Other(SideToMove))
    /\ is_in_check(piece_location, SideToMove)
    /\ ~has_legal_moves([St EXCEPT !.winner = ""], SideToMove).ret
    /\ last_move # None

(* C13: threefold repetition fires on the third occurrence and not before.  The
   outcome is Threefold only while some position is counted three times; a real
   move sets it only when it brings the count of the position it reaches from 2 to
   3, and sets it whenever it does so and the opponent has a legal move. *)
C13_ThreefoldOnThird ==
    /\ winner = "Threefold" =>
          \E key \in DOMAIN position_counts : position_counts[key] >= 3
    /\ winner = "" =>
          \A sq \in Clicks :
              LET t == move_piece(St, SideToMove, sq, "queen")
                  before == Get(position_counts, get_position_key(t), 0)
                  any == has_legal_moves([t EXCEPT !.winner = ""], SideOf(t)).ret
              IN  t.turn # turn =>
                      /\ t.winner = "Threefold" => Occurrences(t) = 3 /\ before = 2
                      /\ (Occurrences(t) = 3 /\ any) => t.winner = "Threefold"

(* The starting position has come a third time and the game is drawn. *)
C13_Witness ==
    /\ winner = "Threefold"
    /\ Occurrences(St) = 3
    /\ nmoves = MaxPlyRepeat

----------------------------------------------------------------------------
(* C14: capture monotonicity.  Every step of the game that is not the start of a
   new game (a click handled by move_piece, a move of the AI, the start, the cancel
   or the commit of a preview, the flag falling) leaves a captured list that begins
   with the captured list from before the step. *)
C14_CaptureMonotonic ==
    [][nresets' = nresets =>
           /\ Len(captured) <= Len(captured')
           /\ SubSeq(captured', 1, Len(captured)) = captured]_vars

(* Pieces have been captured and a further real move appends one more. *)
C14_Witness ==
    /\ Len(captured) >= 2
    /\ \E dest \in ClickXY : \E source \in Clicks :
          LET r == validate_move(St, dest, FALSE, source, "queen")
          IN  r.ret /\ Len(r.s.captured) = Len(captured) + 1

----------------------------------------------------------------------------
(* C15: preview entry guard.  In every reachable state with previewing True the
   staged piece belongs to the side to move and that side holds a charge; and
   start_power_preview_for_selected enters a preview only so. *)
Guarded(s) ==
    /\ s.preview_source # None
    /\ CellAt(s, s.preview_source).name # ""
    /\ ColorOf(CellAt(s, s.preview_source).name) = SideOf(s)
    /\ s.charges[SideOf(s)] >= 1

C15_PreviewEntryGuard ==
    variant = "SuperChess" =>
        /\ previewing => Guarded(St)
        /\ ~previewing =>
              LET t == start_power_preview_for_selected(St)
              IN  t.previewing => Guarded(t)

(* C16: the preview state is transient.  Whenever previewing is False, preview_source
   is None, preview_moves is empty and power_preview_name is None. *)
C16_PreviewTransient ==
    (variant = "SuperChess" /\ ~previewing) =>
        /\ preview_source = None
        /\ preview_moves = <<>>
        /\ power_preview_name = NoName

----------------------------------------------------------------------------
(* The pieces a colour has on the board. *)
Material(s, color) == Len(PiecesOf(s.piece_location, color))

(* C17: charge earning.  A successful real ordinary move of a piece of the side to
   move that takes an enemy piece off the board raises the mover's charges by one,
   to 3 at most; one that takes nothing leaves them as they were; the opponent's
   charges do not change on an ordinary move; a simulated move changes no charges. *)
C17_ChargeEarning ==
    variant = "SuperChess" =>
        \A dest \in ClickXY : \A source \in Clicks :
            /\ validate_move(St, dest, TRUE, source, "queen").s.charges = charges
            /\ (/\ ~(previewing /\ power_preview_active)
                /\ CellAt(St, source).name # ""
                /\ ColorOf(CellAt(St, source).name) = SideToMove) =>
                  LET r == validate_move(St, dest, FALSE, source, "queen")
                      mover == SideToMove
                      took == Material(r.s, Other(mover)) < Material(St, Other(mover))
                      kept == /\ Material(r.s, "white") = Material(St, "white")
                              /\ Material(r.s, "black") = Material(St, "black")
                  IN  r.ret =>
                        /\ r.s.charges[Other(mover)] = charges[Other(mover)]
                        /\ took => r.s.charges[mover] =
                                      (IF charges[mover] < 3 THEN charges[mover] + 1 ELSE 3)
                        /\ kept => r.s.charges[mover] = charges[mover]

----------------------------------------------------------------------------
(* The piece a commit acts for: preview_source, else the selected square. *)
Staged(s) == IF s.preview_source = None THEN FindSelected(s.piece_location)
             ELSE s.preview_source

(* C18: commit cost.  Every successful commit of a superpower, by
   commit_power_preview, by validate_move under an active preview or by the AI,
   lowers the charges of the colour of the staged piece by exactly one and leaves
   the other colour's charges as they were, whether or not the activation captures.
   An ai_move that passes the turn without counting a position has used a power. *)
C18_CommitCost ==
    variant = "SuperChess" =>
      /\ Sessions[session].game_mode = "engine" =>
            \A pick \in 1..MaxAiPick :
                LET r == ai_move(St, TRUE, pick)
                IN  (r.ret /\ r.s.turn # turn /\ r.s.position_counts = position_counts) =>
                        /\ r.s.charges.black = charges.black - 1
                        /\ r.s.charges.white = charges.white
      /\ \A dest \in ClickXY :
            LET mover == ColorOf(CellAt(St, Staged(St)).name)
                Paid(t) == /\ t.charges[mover] = charges[mover] - 1
                           /\ t.charges[Other(mover)] = charges[Other(mover)]
            IN  /\ LET r == commit_power_preview(St, dest)
                   IN  r.ret => Paid(r.s)
                /\ (previewing /\ power_preview_active) =>
                      \A source \in Sources :
                          LET r == validate_move(St, dest, FALSE, source, "queen")
                          IN  r.ret => Paid(r.s)

(* A preview is shown and a commit on one of the session's squares succeeds and
   takes an enemy piece off the board. *)
C18_Witness ==
    /\ variant = "SuperChess" /\ previewing /\ power_preview_active
    /\ \E dest \in ClickXY :
          LET r == commit_power_preview(St, dest)
          IN  /\ r.ret
              /\ Material(r.s, Other(SideToMove)) < Material(St, Other(SideToMove))

----------------------------------------------------------------------------
(* The zones in fortress_zones. *)
Zones == {fortress_zones[i] : i \in 1..Len(fortress_zones)}

(* C19, first part: legal_moves_for of a piece that is not the owner's contains no
   square of a zone. *)
C19_Pruned == \A z \in Zones : Excluded(St, z)

(* C19, second part: when every zone belongs to the piece's colour, legal_moves_for
   drops nothing of the base class's legal moves but the castling moves of a king
   that was recently in check. *)
C19_OwnerFree ==
    \A sq \in Clicks :
        CellAt(St, sq).name # "" =>
            LET name == CellAt(St, sq).name
                xy == CellAt(St, sq).coord
                base == Chess_legal_moves_for(St, name, xy).ret
            IN  (\A z \in Zones : z.owner = ColorOf(name)) =>
                    \A k \in 1..Len(base) :
                        \/ InSeq(base[k], LegalOf(St, sq).ret)
                        \/ /\ KindOf(name) = "king"
                           /\ king_recently_checked[ColorOf(name)]
                           /\ Abs(base[k][1] - xy[1]) = 2 /\ base[k][2] = xy[2]

(* C19, third part: a real ordinary move of a piece that is not the owner's onto a
   square of a zone is turned down. *)
C19_NoEntry ==
    ~(previewing /\ power_preview_active) =>
        \A z \in Zones : \A source \in Clicks : \A dest \in ClickXY :
            (/\ CellAt(St, source).name # ""
             /\ ColorOf(CellAt(St, source).name) # z.owner
             /\ InSeq(dest, z.squares)) =>
                ~validate_move(St, dest, FALSE, source, "queen").ret

(* C19: fortress area denial.  While a zone is in fortress_zones, no real ordinary
   move by the other colour ends on one of its squares, legal_moves_for of a piece
   of the other colour contains none of its squares, and the owner's legal moves
   are not pruned by its own zone. *)
C19_FortressDenial ==
    variant = "SuperChess" => C19_NoEntry /\ C19_Pruned /\ C19_OwnerFree

----------------------------------------------------------------------------
(* C20: reset yields the initial state.  From every reachable state reset gives the
   starting position with white to move, nothing captured, no outcome, no last
   move, has_moved False on the sixteen back-rank squares, a repetition table that
   holds the key of the starting position once and nothing else and, in the
   variant, no charges, no zones and no preview; that is, the state the constructor
   gives. *)
C20_ResetToInitial ==
    LET t == reset(St)
        home == {<<Files[i], r>> : i \in 1..8, r \in {1, 8}}
    IN  /\ t.piece_location = StartBoard
        /\ t.turn = [black |-> 0, white |-> 1]
        /\ t.captured = <<>> /\ t.winner = "" /\ t.last_move = None /\ t.moves = <<>>
        /\ DOMAIN t.has_moved = home /\ \A sq \in home : ~t.has_moved[sq]
        /\ DOMAIN t.position_counts = {get_position_key(__init__(variant))}
        /\ \A key \in DOMAIN t.position_counts : t.position_counts[key] = 1
        /\ variant = "SuperChess" =>
              /\ t.charges = [white |-> 0, black |-> 0]
              /\ t.fortress_zones = <<>>
              /\ ~t.previewing /\ ~t.power_preview_active
              /\ t.preview_moves = <<>> /\ t.preview_source = None
              /\ t.power_preview_name = NoName
        /\ [t EXCEPT !.ai_auto_promote = FALSE] = __init__(variant)

(* A new game of the variant has been started after four half-moves or more and
   nothing has been played in it yet. *)
C20_Witness ==
    /\ variant = "SuperChess"
    /\ nresets = 1 /\ nmoves >= 4
    /\ last_move = None /\ captured = <<>>
    /\ piece_location = StartBoard

----------------------------------------------------------------------------
(* C21: shield redirect.  While a bishop's phase_shift is previewed and the enemy
   king stands on a diagonal of the bishop with a piece of the king's colour on the
   square one step back towards the bishop, commit_power_preview with the king's
   square as target succeeds, appends the shield piece to the captured list, puts
   the bishop on the shield's square and leaves the king where it was. *)
C21_ShieldRedirect ==
    (/\ variant = "SuperChess"
     /\ previewing /\ power_preview_active
     /\ power_preview_name = "phase_shift"
     /\ preview_source # None) =>
        LET bishop == CellAt(St, preview_source)
            color == ColorOf(bishop.name)
            king == find_king(piece_location, Other(color))
            kx == king[1]
            ky == king[2]
            bx == bishop.coord[1]
            by == bishop.coord[2]
            hx == kx - Sign(kx - bx)
            hy == ky - Sign(ky - by)
            r == commit_power_preview(St, <<kx, ky>>)
        IN  (/\ bishop.name # "" /\ KindOf(bishop.name) = "bishop"
             /\ king # None
             /\ Abs(kx - bx) = Abs(ky - by)
             /\ Friendly(piece_location, hx, hy, Other(color))) =>
                /\ r.ret
                /\ r.s.captured = Append(captured, At(piece_location, hx, hy))
                /\ At(r.s.piece_location, hx, hy) = bishop.name
                /\ At(r.s.piece_location, kx, ky) = Name(Other(color), "king")

----------------------------------------------------------------------------
(* C22: castling execution.  When the king of the side to move makes a real move of
   exactly two files along its home rank, one of its legal moves, the rook of that
   side stands on the f-file (king-side) or the d-file (queen-side) afterwards, the
   rook's corner is empty, the king stands on the destination, and has_moved is
   True for the king's home square and for the rook's corner. *)
C22_CastlingExecution ==
    LET color == SideToMove
        king == find_king(piece_location, color)
        home == IF color = "white" THEN 1 ELSE 8
    IN  (king # None /\ ~(previewing /\ power_preview_active)) =>
        LET sq == xy_to_square(king[1], king[2])
            legal == LegalOf(St, sq)
        IN  \A k \in 1..Len(legal.ret) :
               LET dest == legal.ret[k]
                   r == validate_move(legal.s, dest, FALSE, sq, "queen")
                   rook_src == <<IF dest[1] > king[1] THEN "h" ELSE "a", home>>
                   rook_dst == <<IF dest[1] > king[1] THEN "f" ELSE "d", home>>
               IN  (sq[2] = home /\ dest[2] = king[2] /\ Abs(dest[1] - king[1]) = 2) =>
                       /\ r.ret
                       /\ CellAt(r.s, rook_dst).name = Name(color, "rook")
                       /\ CellAt(r.s, rook_src).name = ""
                       /\ At(r.s.piece_location, dest[1], dest[2]) = Name(color, "king")
                       /\ Get(r.s.has_moved, <<"e", home>>, FALSE)
                       /\ Get(r.s.has_moved, rook_src, FALSE)

(* White has castled king-side by clicks: the king went from e1 to g1, the rook
   stands on f1 and both squares are marked as moved. *)
C22_Witness ==
    /\ last_move = <<<<4, 7>>, <<6, 7>>, "white_king">>
    /\ piece_location["g"][1].name = "white_king"
    /\ piece_location["f"][1].name = "white_rook"
    /\ piece_location["h"][1].name = ""
    /\ Get(has_moved, <<"e", 1>>, FALSE)
    /\ Get(has_moved, <<"h", 1>>, FALSE)

----------------------------------------------------------------------------
(* C23: en passant.  A legal move of a pawn of the side to move onto another file
   either lands on an occupied square and captures the piece standing there, or
   lands on an empty square, and then the last move is an enemy pawn's advance of
   two rows that ended beside the pawn (on the destination's file, on the pawn's
   rank); the move then empties that square, appends the enemy pawn to the captured
   list and puts the pawn on the destination. *)
C23_EnPassant ==
    ~(previewing /\ power_preview_active) =>
        \A i \in 1..64 :
            LET sq == FileMajor[i]
                cell == CellAt(St, sq)
                color == SideToMove
                legal == LegalOf(St, sq)
            IN  cell.name = Name(color, "pawn") =>
                \A k \in 1..Len(legal.ret) :
                    LET dest == legal.ret[k]
                        y == cell.coord[2]
                        r == validate_move(legal.s, dest, FALSE, sq, "queen")
                    IN  dest[1] # cell.coord[1] =>
                        IF At(piece_location, dest[1], dest[2]) = ""
                        THEN /\ last_move # None
                             /\ last_move[3] = Name(Other(color), "pawn")
                             /\ Abs(last_move[1][2] - last_move[2][2]) = 2
                             /\ last_move[2] = <<dest[1], y>>
                             /\ r.ret
                             /\ At(r.s.piece_location, dest[1], y) = ""
                             /\ r.s.captured = Append(captured, Name(Other(color), "pawn"))
                             /\ At(r.s.piece_location, dest[1], dest[2]) = cell.name
                        ELSE /\ r.ret
                             /\ r.s.captured =
                                    Append(captured, At(piece_location, dest[1], dest[2]))

----------------------------------------------------------------------------
(* C24: round-trip coordinates.  xy_to_square after square_to_xy gives back every
   file a..h and rank 1..8, square_to_xy after xy_to_square gives back every x, y
   in 0..7, and in every reachable state the coordinates stored in a board cell are
   square_to_xy of the cell's square. *)
C24_RoundTrip ==
    /\ \A i \in 1..8 : \A r \in Rows :
          LET xy == square_to_xy(Files[i], r)
          IN  xy_to_square(xy[1], xy[2]) = <<Files[i], r>>
    /\ \A x \in Coords : \A y \in Coords :
          LET sq == xy_to_square(x, y)
          IN  square_to_xy(sq[1], sq[2]) = <<x, y>>
    /\ \A i \in 1..64 :
          CellAt(St, FileMajor[i]).coord = square_to_xy(FileMajor[i][1], FileMajor[i][2])

(* Pieces have moved (white's pawn stands on e4 after at least two half-moves) and
   the cell e4 still carries the coordinates of e4, which convert back to e4. *)
C24_Witness ==
    /\ nmoves >= 2
    /\ piece_location["e"][4].name = "white_pawn"
    /\ piece_location["e"][4].coord = <<4, 4>>
    /\ xy_to_square(4, 4) = <<"e", 4>>
    /\ square_to_xy("e", 4) = <<4, 4>>

----------------------------------------------------------------------------
(* C25: castling candidacy.  In every reachable state castling_moves gives a king
   at most two destinations, and gives one only when the king stands on its home
   square (e1, e8) with has_moved False for it, the rook of that side stands on its
   corner with has_moved False, and the squares between them are empty; each
   destination is on the home rank, two files from the e-file. *)
C25_CastlingCandidacy ==
    \A color \in {"white", "black"} :
        LET king == find_king(piece_location, color)
            home == IF color = "white" THEN 1 ELSE 8
            offered == castling_moves(St, color, king)
        IN  king # None =>
            /\ Len(offered) <= 2
            /\ \A k \in 1..Len(offered) :
                  LET dest == offered[k]
                      rook_sq == <<IF dest[1] > 4 THEN "h" ELSE "a", home>>
                      between == IF dest[1] > 4 THEN {"f", "g"} ELSE {"b", "c", "d"}
                  IN  /\ king = square_to_xy("e", home)
                      /\ ~Get(has_moved, <<"e", home>>, TRUE)
                      /\ CellAt(St, rook_sq).name = Name(color, "rook")
                      /\ ~Get(has_moved, rook_sq, TRUE)
                      /\ \A f \in between : piece_location[f][home].name = ""
                      /\ dest[2] = 8 - home
                      /\ Abs(dest[1] - 4) = 2

----------------------------------------------------------------------------
(* The legal moves of the king on `king` that castling_moves offers and that go two
   files along its rank. *)
C26_Castles(s, color, king) ==
    LET offered == castling_moves(s, color, king)
        Castle(dest) == InSeq(dest, offered) /\ dest[2] = king[2]
                        /\ Abs(dest[1] - king[1]) = 2
    IN  SelectSeq(LegalOf(s, xy_to_square(king[1], king[2])).ret, Castle)

(* C26: no castling out of or through check.  In every reachable state, for the king
   of the side to move: a legal move that castling_moves offers and that goes two
   files along the king's rank starts from a square that is not attacked, passes
   over a square that is not attacked and ends on a square that is not attacked;
   and in SuperChess, while that king is in check, its legal moves hold no move of
   two files along its rank and validate_move refuses such a move. *)
C26_NoCastlingFromCheck ==
    LET color == SideToMove
        king == find_king(piece_location, color)
    IN  (king # None /\ ~(previewing /\ power_preview_active)) =>
        /\ \A k \in 1..Len(C26_Castles(St, color, king)) :
              LET dest == C26_Castles(St, color, king)[k]
                  pass == <<(king[1] + dest[1]) \div 2, king[2]>>
              IN  /\ ~is_square_attacked(piece_location, color, king)
                  /\ ~is_square_attacked(piece_location, color, pass)
                  /\ ~is_square_attacked(piece_location, color, dest)
        /\ (variant = "SuperChess" /\ is_in_check(piece_location, color)) =>
              LET sq == xy_to_square(king[1], king[2])
                  legal == LegalOf(St, sq).ret
              IN  /\ \A k \in 1..Len(legal) :
                        ~(legal[k][2] = king[2] /\ Abs(legal[k][1] - king[1]) = 2)
                  /\ \A dx \in {king[1] - 2, king[1] + 2} :
                        OnBoard(dx, king[2]) =>
                            ~validate_move(St, <<dx, king[2]>>, FALSE, sq, "queen").ret

----------------------------------------------------------------------------
(* C27: outcome after superpower activations.  While the game runs, a successful
   commit_power_preview that leaves the opponent without a legal move sets the
   outcome (the mover's colour if the opponent is in check, Stalemate otherwise);
   and in every reachable state in which the side to move has no legal move the
   outcome is not empty. *)
C27_OutcomeAfterPower ==
    /\ (variant = "SuperChess" /\ winner = "") =>
          \A xy \in ClickXY :
              LET r == commit_power_preview(St, xy)
                  opponent == SideOf(r.s)
              IN  (r.ret /\ ~has_legal_moves(r.s, opponent).ret) =>
                      r.s.winner = IF is_in_check(r.s.piece_location, opponent)
                                   THEN Capitalize(Other(opponent)) ELSE "Stalemate"
    /\ winner = "" => has_legal_moves(St, SideToMove).ret

----------------------------------------------------------------------------
(* C28: preview candidates are king-safe.  In every reachable state with an active
   preview of a piece, applying the power to any square of preview_moves leaves the
   king of the piece's colour not in check, and no successful commit_power_preview
   on such a square leaves that king in check. *)
C28_PreviewKingSafe ==
    (/\ variant = "SuperChess"
     /\ previewing /\ power_preview_active
     /\ preview_source # None
     /\ CellAt(St, preview_source).name # "") =>
        LET color == ColorOf(CellAt(St, preview_source).name)
        IN  \A k \in 1..Len(preview_moves) :
               LET tried == apply_super_move_simulate(St, preview_source[1],
                                                      preview_source[2], preview_moves[k])
                   r == commit_power_preview(St, preview_moves[k])
               IN  /\ ~is_in_check(tried.s.piece_location, color)
                   /\ r.ret => ~is_in_check(r.s.piece_location, color)


(* The game state that an exploration must hand back: the piece on every square,
   the captured list, the fortress zones, the charges, the turn, has_moved and
   last_move. *)
C29_GameState(s) ==
    << [f \in DOMAIN s.piece_location |->
           [r \in DOMAIN s.piece_location[f] |-> s.piece_location[f][r].name]],
       s.captured, s.fortress_zones, s.charges, s.turn, s.has_moved, s.last_move >>

(* C29: beginning a preview is free of side effects on the game state: in every
   reachable state of the variant, toggle_preview for the side to move and
   start_power_preview_for_selected, whether or not the preview is entered, leave
   the board's pieces, the captured list, the fortress zones, the charges, the turn,
   has_moved and last_move as they were. *)
C29_PreviewSideEffectFree ==
    variant = "SuperChess" =>
        /\ C29_GameState(toggle_preview(St, SideToMove)) = C29_GameState(St)
        /\ C29_GameState(start_power_preview_for_selected(St)) = C29_GameState(St)


(* C30: cancelling a preview keeps committed zones: after a fortress_field commit
   that succeeded, cancel_power_preview leaves the zone the commit created in
   fortress_zones with its owner, squares and TTL, and leaves the board, the turn,
   the charges and the captured list as they are. *)
C30_CancelKeepsCommitted ==
    (variant = "SuperChess" /\ previewing /\ power_preview_name = "fortress_field") =>
        \A k \in 1..Len(preview_moves) :
            LET r == commit_power_preview(St, preview_moves[k])
                zones == r.s.fortress_zones
                after == cancel_power_preview(r.s)
            IN  (r.ret /\ zones # <<>>) =>
                    /\ \E j \in 1..Len(after.fortress_zones) :
                          after.fortress_zones[j] = zones[Len(zones)]
                    /\ after.piece_location = r.s.piece_location
                    /\ after.turn = r.s.turn
                    /\ after.charges = r.s.charges
                    /\ after.captured = r.s.captured


(* C31: the last-move record is overwritten by every real move.  A superpower
   commit that succeeds leaves in last_move the record of that activation: the
   square and the name of the piece that used the power. *)
C31_LastMoveOverwritten ==
    (/\ variant = "SuperChess" /\ previewing /\ power_preview_active
     /\ preview_source # None /\ CellAt(St, preview_source).name # "") =>
        \A k \in 1..Len(preview_moves) :
            LET r == commit_power_preview(St, preview_moves[k])
            IN  r.ret =>
                   /\ r.s.last_move # None
                   /\ r.s.last_move[1] = CellAt(St, preview_source).coord
                   /\ r.s.last_move[3] = CellAt(St, preview_source).name


(* The sum of the occurrence counts over the given keys of the table. *)
RECURSIVE C32_SumOver(_, _)
C32_SumOver(counts, keys) ==
    IF keys = {} THEN 0
    ELSE LET key == CHOOSE k \in keys : TRUE
         IN  counts[key] + C32_SumOver(counts, keys \ {key})

(* C32: repetition table bookkeeping.  Between resets, a step that passes the turn
   (a real move: an ordinary move or a superpower activation) raises the sum of the
   occurrence counts by exactly 1, a step that does not pass the turn leaves the
   table as it is, and no count ever decreases. *)
C32_RepetitionBookkeeping ==
    [][nresets' = nresets =>
          /\ IF turn' # turn
             THEN C32_SumOver(position_counts', DOMAIN position_counts')
                      = C32_SumOver(position_counts, DOMAIN position_counts) + 1
             ELSE position_counts' = position_counts
          /\ \A key \in DOMAIN position_counts :
                /\ key \in DOMAIN position_counts'
                /\ position_counts'[key] >= position_counts[key]]_vars


(* C33: move flags are monotone.  Between resets, a square whose has_moved flag is
   True keeps it True over every step (moves, previews, commits, cancels, the AI's
   reply), and every step that records a move in last_move leaves has_moved True
   for the square the move started from. *)
C33_MoveFlagsMonotone ==
    [][nresets' = nresets =>
          /\ \A sq \in DOMAIN has_moved : has_moved[sq] => Get(has_moved', sq, FALSE)
          /\ (last_move' # last_move /\ last_move' # None) =>
                Get(has_moved', xy_to_square(last_move'[1][1], last_move'[1][2]), FALSE)]_vars

(* A square left three or more half-moves ago is still flagged although another
   move has been recorded since and a piece stands on a flagged square. *)
C33_Witness ==
    /\ nmoves >= 3
    /\ last_move # None
    /\ \E sq \in DOMAIN has_moved :
          /\ has_moved[sq]
          /\ sq # xy_to_square(last_move[1][1], last_move[1][2])
          /\ piece_location[sq[1]][sq[2]].name # ""


(* C34: royal_teleport.  While a king's power is previewed, a commit on any square
   of the board that succeeds has swapped the king with another piece of its own
   colour standing on that square: the king stands on the target, the other piece on
   the king's former square, every other square is as it was, the captured list is
   as it was, the turn has passed and the king's colour has one charge less.  A
   commit on the king's own square, on an empty square or on an enemy's square is
   rejected. *)
C34_RoyalTeleport ==
    (/\ variant = "SuperChess" /\ previewing /\ power_preview_active
     /\ power_preview_name = "royal_teleport"
     /\ preview_source # None
     /\ CellAt(St, preview_source).name \in {"white_king", "black_king"}) =>
        LET king == CellAt(St, preview_source).name
            color == ColorOf(king)
            from == CellAt(St, preview_source).coord
        IN  \A dx \in Coords : \A dy \in Coords :
               LET target == At(piece_location, dx, dy)
                   r == commit_power_preview(St, <<dx, dy>>)
                   swapped == Put(Put(piece_location, dx, dy, king),
                                  from[1], from[2], target)
               IN  /\ r.ret =>
                         /\ target # "" /\ ColorOf(target) = color /\ <<dx, dy>> # from
                         /\ BoardNames(r.s.piece_location) = BoardNames(swapped)
                         /\ r.s.captured = captured
                         /\ r.s.turn[color] = 0 /\ r.s.turn[Other(color)] = 1
                         /\ turn[color] = 1
                         /\ r.s.charges[color] = charges[color] - 1
                         /\ r.s.charges[Other(color)] = charges[Other(color)]
                   /\ (<<dx, dy>> = from \/ target = "" \/ ColorOf(target) # color) =>
                         ~r.ret

(* A king has changed places with one of its own pieces by a commit: the last move
   is the king's, it ends on another rank, and a piece of the king's colour stands
   on the king's former square. *)
C34_Witness ==
    /\ variant = "SuperChess"
    /\ last_move # None
    /\ last_move[3] \in {"white_king", "black_king"}
    /\ At(piece_location, last_move[2][1], last_move[2][2]) = last_move[3]
    /\ At(piece_location, last_move[1][1], last_move[1][2]) # ""
    /\ ColorOf(At(piece_location, last_move[1][1], last_move[1][2])) = ColorOf(last_move[3])
    /\ Abs(last_move[2][2] - last_move[1][2]) >= 1


(* The number of entries of a sequence of names that satisfy a colour and a kind. *)
C35_Count(names, color, kind) ==
    Cardinality({i \in 1..Len(names) : names[i] = Name(color, kind)})

(* C35: sacrifice.  While a pawn's power is previewed, a commit on the pawn's square
   that succeeds has emptied the pawn's square and the squares immediately left and
   right of it on its rank that held enemy pieces, has appended exactly those enemy
   pieces to the captured list (left first), has left every other square as it was,
   has passed the turn and has taken one charge from the pawn's colour, also when
   nothing was captured. *)
C35_Sacrifice ==
    (/\ variant = "SuperChess" /\ previewing /\ power_preview_active
     /\ power_preview_name = "sacrifice"
     /\ preview_source # None
     /\ CellAt(St, preview_source).name \in {"white_pawn", "black_pawn"}) =>
        LET color == ColorOf(CellAt(St, preview_source).name)
            at == CellAt(St, preview_source).coord
            Victim(x) == OnBoard(x, at[2]) /\ Enemy(piece_location, x, at[2], color)
            Taken(x) == IF Victim(x) THEN <<At(piece_location, x, at[2])>> ELSE <<>>
            Left(x, y) == IF \/ <<x, y>> = at
                             \/ (y = at[2] /\ Abs(x - at[1]) = 1 /\ Victim(x))
                          THEN "" ELSE At(piece_location, x, y)
            r == commit_power_preview(St, at)
        IN  r.ret =>
               /\ \A x \in Coords : \A y \in Coords :
                     At(r.s.piece_location, x, y) = Left(x, y)
               /\ r.s.captured = captured \o Taken(at[1] - 1) \o Taken(at[1] + 1)
               /\ r.s.turn = SwapTurn(turn)
               /\ r.s.charges[color] = charges[color] - 1
               /\ r.s.charges[Other(color)] = charges[Other(color)]

(* A pawn has been sacrificed with a capture: the side that moved last has fewer
   than eight pawns on the board and in the captured list together, the last
   recorded move is the other side's, and the newest captured piece belongs to the
   side that is now to move. *)
C35_Witness ==
    LET mover == Other(SideToMove)
        OnTheBoard == Cardinality({i \in 1..64 :
                         BoardNames(piece_location)[i] = Name(mover, "pawn")})
    IN  /\ variant = "SuperChess"
        /\ winner = ""
        /\ last_move # None /\ ColorOf(last_move[3]) = SideToMove
        /\ OnTheBoard + C35_Count(captured, mover, "pawn") < 8
        /\ captured # <<>> /\ ColorOf(captured[Len(captured)]) = SideToMove


(* A white pawn on rank 8 or a black pawn on rank 1. *)
C36_PawnOnFarRank(pl) ==
    \E i \in 1..8 : \/ pl[Files[i]][8].name = "white_pawn"
                    \/ pl[Files[i]][1].name = "black_pawn"

(* C36: promotion leaves no pawn on its far rank.  No reachable state has a white
   pawn on rank 8 or a black pawn on rank 1, and neither has the state after a
   superpower commit that succeeds from a reachable preview. *)
C36_NoPawnOnFarRank ==
    /\ ~C36_PawnOnFarRank(piece_location)
    /\ (variant = "SuperChess" /\ previewing /\ power_preview_active) =>
          \A k \in 1..Len(preview_moves) :
              LET r == commit_power_preview(St, preview_moves[k])
              IN  r.ret => ~C36_PawnOnFarRank(r.s.piece_location)


(* C37: piece accounting.  Every entry of the captured list is a piece that a real
   move took off the board, so in every reachable state the pieces on the board and
   the entries of the captured list are together at most the 32 pieces of the
   start (exactly 32 less the pawns removed by committed sacrifices). *)
C37_PieceAccounting ==
    Cardinality({i \in 1..64 : BoardNames(piece_location)[i] # ""}) + Len(captured) <= 32


(* C38: ai_move acts only for black and reports truthfully.  In a game against the
   AI, for every draw of its random choices: when an outcome is set or black is not
   to move, ai_move returns False and leaves the object as it is; when it returns
   True, black was to move and white is to move afterwards. *)
C38_AiMoveTruthful ==
    Sessions[session].game_mode = "engine" =>
        \A use_power \in BOOLEAN : \A pick \in AiPicks :
            LET r == ai_move(St, use_power, pick)
            IN  /\ (winner # "" \/ turn.black = 0) => (~r.ret /\ r.s = St)
                /\ r.ret => /\ turn.black # 0
                            /\ r.s.turn.white = 1
                            /\ r.s.turn.black = 0


(* C39: sliding rays stop at the first occupied square.  In every reachable state,
   for every rook, bishop and queen on the board and every direction of its
   direction set, the n-th square of the ray is a candidate of possible_moves
   exactly when no square before it on the ray is occupied and the square itself
   is empty or holds a piece of the other colour. *)
C39_Directions(kind) ==
    (IF kind \in {"rook", "queen"}
        THEN {<<-1, 0>>, <<1, 0>>, <<0, -1>>, <<0, 1>>} ELSE {})
    \cup
    (IF kind \in {"bishop", "queen"}
        THEN {<<-1, -1>>, <<1, 1>>, <<-1, 1>>, <<1, -1>>} ELSE {})

C39_Candidates(x, y) ==
    LET cand == possible_moves(St, At(piece_location, x, y), <<x, y>>)
    IN  {cand[i] : i \in 1..Len(cand)}

C39_Clear(x, y, d, n) ==
    \A j \in 1..(n - 1) : At(piece_location, x + j * d[1], y + j * d[2]) = ""

C39_SlidingRays ==
    \A x \in 0..7 : \A y \in 0..7 :
        LET p == At(piece_location, x, y)
        IN  (p # "" /\ KindOf(p) \in {"rook", "bishop", "queen"}) =>
                \A d \in C39_Directions(KindOf(p)) : \A n \in 1..7 :
                    LET nx == x + n * d[1]
                        ny == y + n * d[2]
                    IN  OnBoard(nx, ny) =>
                            (<<nx, ny>> \in C39_Candidates(x, y)
                                <=> /\ C39_Clear(x, y, d, n)
                                    /\ \/ At(piece_location, nx, ny) = ""
                                       \/ ColorOf(At(piece_location, nx, ny)) # ColorOf(p))

(* A slider with an open ray that ends on an enemy piece two or more squares away,
   with a further square of the board behind it, and with another ray shut at once
   by a piece of its own colour. *)
C39_Witness ==
    \E x \in 0..7 : \E y \in 0..7 :
        LET p == At(piece_location, x, y)
        IN  /\ p # ""
            /\ KindOf(p) \in {"rook", "bishop", "queen"}
            /\ \E d \in C39_Directions(KindOf(p)) : \E n \in 2..6 :
                   /\ OnBoard(x + (n + 1) * d[1], y + (n + 1) * d[2])
                   /\ C39_Clear(x, y, d, n)
                   /\ At(piece_location, x + n * d[1], y + n * d[2]) # ""
                   /\ ColorOf(At(piece_location, x + n * d[1], y + n * d[2])) # ColorOf(p)
                   /\ <<x + n * d[1], y + n * d[2]>> \in C39_Candidates(x, y)
            /\ \E d \in C39_Directions(KindOf(p)) :
                   /\ OnBoard(x + d[1], y + d[2])
                   /\ At(piece_location, x + d[1], y + d[2]) # ""
                   /\ ColorOf(At(piece_location, x + d[1], y + d[2])) = ColorOf(p)
                   /\ <<x + d[1], y + d[2]>> \notin C39_Candidates(x, y)

====
